---- MODULE Spec2Model ----
(***************************************************************************)
(* State detection and action dispatch engine of the LDPlayer bot          *)
(* (src/state_machine.py, class ScreenStateManager), with the matcher      *)
(* functions of src/utils.py that bot_main.py binds to it.                 *)
(*                                                                         *)
(* Python strings that are compared character-wise (patterns, OCR text)    *)
(* are tuples of one-character strings; identifiers are TLA+ strings.      *)
(* Scores and thresholds are percentages (0.8 is 80).                      *)
(***************************************************************************)
EXTENDS Integers, Sequences, FiniteSets, TLC

\* ------------------------------------------------------------- bounds
\* Total number of screenshot callbacks over the life of one engine.
MaxCaptures == 3
\* Total number of direct register_state calls on one engine.
MaxCriteria == 2
\* Total number of direct register_action calls on one engine.
MaxActions == 2
\* Most register_state calls made where registration alone is followed.
MaxRegistrations == 3
\* Most auto_register_state calls made where the imports are followed.
MaxDefinitions == 2
\* Calls of load_registered_states on one engine.
MaxLoads == 2

\* ---------------------------------------------------------- constants
\* Optional[...] = None for the state identifiers.
NoState == "None"
\* max_iterations: Optional[int] = None.
NoBudget == -1
\* register_state(..., threshold: float = 0.8, ...).
DefaultThreshold == 80
\* auto_register_state(..., threshold=50) of the solid-colour criterion.
SolidThreshold == 50

\* ------------------------------------------------------------ strings
PatIcon == <<"i", "c", "o", "n">>
PatLoading == <<"L", "o", "a", "d">>
PatWhite == <<"w", "h", "i", "t", "e">>
PatWhiteCapital == <<"W", "h", "i", "t", "e">>
PatBlack == <<"b", "l", "a", "c", "k">>
PatGray == <<"g", "r", "a", "y">>
PatBadge == <<"b", "a", "d", "g", "e">>

\* str.lower() on the characters the model uses.
LowerChar(c) ==
    CASE c = "L" -> "l"
      [] c = "O" -> "o"
      [] c = "A" -> "a"
      [] c = "D" -> "d"
      [] c = "W" -> "w"
      [] OTHER -> c

Lower(s) == [i \in 1..Len(s) |-> LowerChar(s[i])]

\* Python's `p in t` on strings.
Contains(p, t) ==
    \E i \in 0..(Len(t) - Len(p)) : SubSeq(t, i + 1, i + Len(p)) = p

\* ------------------------------------------------------------- frames
\* What the screenshot callback can hand back: a path whose file is readable
\* or not, with the best correlation of a template in it and the top-left
\* corner of that best match, the text an OCR pass reads from it, whether it is
\* smaller than the template (cv2.matchTemplate raises on such an image), and
\* the mean and standard deviation of its grey levels.
Frame(id, readable, score, loc, text, tiny, mean, std) ==
    [id |-> id, readable |-> readable, score |-> score, loc |-> loc, text |-> text,
     tiny |-> tiny, mean |-> mean, std |-> std]
FrameIcon == Frame("icon", TRUE, 93, <<50, 50>>, <<>>, FALSE, 90, 40)
FrameLoading ==
    Frame("loading", TRUE, 12, <<0, 0>>, <<"x", "l", "O", "A", "D">>, FALSE, 90, 40)
FrameWhite == Frame("white", TRUE, 12, <<0, 0>>, <<>>, FALSE, 255, 0)
FrameTiny == Frame("tiny", TRUE, 0, <<0, 0>>, <<"l", "o", "a", "d">>, TRUE, 90, 40)
FrameMissing == Frame("missing", FALSE, 0, <<0, 0>>, <<>>, FALSE, 0, 0)

Frames == {FrameIcon, FrameLoading, FrameWhite, FrameTiny, FrameMissing}

\* No screenshot taken yet.
NoFrame == Frame("none", FALSE, 0, <<0, 0>>, <<>>, FALSE, 0, 0)

\* Template files that exist on disk, and the width and height of their images.
Assets == {PatIcon, PatBadge}
TemplateSize(pattern) == IF pattern = PatBadge THEN <<3, 5>> ELSE <<64, 64>>

\* --------------------------------------------------- matcher functions
\* utils.match_template: None when a file is absent or unreadable, an
\* exception of cv2 when the image is smaller than the template, else the
\* score, the place of the best match and the size of the template.
match_template(frame, pattern) ==
    IF ~frame.readable \/ pattern \notin Assets
    THEN [raised |-> FALSE, found |-> FALSE, score |-> 0, loc |-> <<0, 0>>,
          size |-> <<0, 0>>]
    ELSE IF frame.tiny
    THEN [raised |-> TRUE, found |-> FALSE, score |-> 0, loc |-> <<0, 0>>,
          size |-> <<0, 0>>]
    ELSE [raised |-> FALSE, found |-> TRUE, score |-> frame.score, loc |-> frame.loc,
          size |-> TemplateSize(pattern)]

\* utils.template_present, the function bound as template_matcher.
template_present(frame, pattern, threshold) ==
    LET res == match_template(frame, pattern) IN
    [raised |-> res.raised,
     value |-> ~res.raised /\ res.found /\ res.score >= threshold]

\* Mutant of get_template_center: the halving takes in the corner.
CenterHalvesSum(frame, pattern, threshold) ==
    LET res == match_template(frame, pattern) IN
    [raised |-> res.raised,
     value |-> IF ~res.raised /\ res.found /\ res.score >= threshold
               THEN << (res.loc[1] + res.size[1]) \div 2,
                       (res.loc[2] + res.size[2]) \div 2 >>
               ELSE <<>>]

\* utils.get_template_center: the centre (x + w // 2, y + h // 2) of the best
\* match when its score reaches the threshold, else None (the empty tuple).
get_template_center(frame, pattern, threshold) ==
    LET res == match_template(frame, pattern) IN
    [raised |-> res.raised,
     value |-> IF ~res.raised /\ res.found /\ res.score >= threshold
               THEN << res.loc[1] + (res.size[1] \div 2),
                       res.loc[2] + (res.size[2] \div 2) >>
               ELSE <<>>]

\* The grey level of pure white.
White == 255

\* Mutant of is_solid_color: the uniformity test is strict.
SolidColorStrictDeviation(frame, color_name, tolerance, std_dev_threshold) ==
    IF ~frame.readable THEN FALSE
    ELSE IF frame.std >= std_dev_threshold THEN FALSE
    ELSE IF Lower(color_name) = PatWhite THEN frame.mean >= White - tolerance
    ELSE IF Lower(color_name) = PatBlack THEN frame.mean <= tolerance
    ELSE FALSE

\* utils.is_solid_color: False for an absent or unreadable image and for one
\* whose grey levels deviate by more than std_dev_threshold; else whether the
\* mean lies within the tolerance of white or of black, as color_name says.
is_solid_color(frame, color_name, tolerance, std_dev_threshold) ==
    IF ~frame.readable THEN FALSE
    ELSE IF frame.std > std_dev_threshold THEN FALSE
    ELSE IF Lower(color_name) = PatWhite THEN frame.mean >= White - tolerance
    ELSE IF Lower(color_name) = PatBlack THEN frame.mean <= tolerance
    ELSE FALSE

\* utils.extract_text, the function bound as text_extractor: "" for an
\* absent or unreadable image, and every fault of the OCR pass caught.
extract_text(frame) ==
    IF ~frame.readable THEN <<>> ELSE frame.text

\* ------------------------------------------------------------ registry
\* A StateDefinition as auto_register_state appends it to REGISTERED_STATES.
StateDefinition(state, patterns, threshold, actions, matcher_type) ==
    [state |-> state, patterns |-> patterns, threshold |-> threshold,
     actions |-> actions, matcher_type |-> matcher_type]

\* auto_register_state: `patterns` extended by the legacy single `pattern`
\* when one is given (<<>> stands for None), a warning when the result is
\* empty, and the definition that is appended to REGISTERED_STATES.
auto_register_state(state, pattern, actions, threshold, matcher_type, patterns) ==
    LET final_patterns == patterns \o (IF pattern # <<>> THEN <<pattern>> ELSE <<>>) IN
    [def |-> StateDefinition(state, final_patterns, threshold, actions, matcher_type),
     diags |-> IF final_patterns = <<>>
               THEN <<"WARNING: State registered with no patterns!">>
               ELSE <<>>]

\* Calls a state module can make: a state without any pattern, a state given
\* by the legacy single pattern, and one given by a pattern list.
AutoRegisterCalls ==
    { [state |-> "main_menu", pattern |-> <<>>, actions |-> <<"branch_activity">>,
       patterns |-> <<>>],
      [state |-> "launcher", pattern |-> PatIcon, actions |-> <<"tap_game_icon", "wait">>,
       patterns |-> <<>>],
      [state |-> "main_menu", pattern |-> <<>>, actions |-> <<>>,
       patterns |-> <<PatIcon>>] }

\* Contents of the module-level list after the state modules are imported:
\* two screens recognised by the same icon template.
RegShared ==
    << StateDefinition("launcher", <<PatIcon>>, DefaultThreshold,
                       <<"tap_game_icon", "wait">>, "template"),
       StateDefinition("main_menu", <<PatIcon>>, DefaultThreshold,
                       <<"branch_activity">>, "template") >>

\* game_loading registered by text and by solid colour, then the launcher.
RegLoading ==
    << StateDefinition("game_loading", <<PatLoading>>, DefaultThreshold,
                       <<"wait">>, "text"),
       StateDefinition("game_loading", <<PatWhite>>, SolidThreshold,
                       <<>>, "solid_color"),
       StateDefinition("launcher", <<PatIcon>>, DefaultThreshold,
                       <<"tap_game_icon", "wait">>, "template") >>

\* The launcher defined by two modules with thresholds of their own, and
\* game_loading between them.
RegSplit ==
    << StateDefinition("launcher", <<PatIcon>>, 95, <<"tap_game_icon">>, "template"),
       StateDefinition("game_loading", <<PatLoading>>, DefaultThreshold,
                       <<"wait">>, "text"),
       StateDefinition("launcher", <<PatIcon>>, DefaultThreshold,
                       <<"wait">>, "template") >>

\* main_menu first defined without a pattern, and with one after the launcher.
RegLate ==
    << StateDefinition("main_menu", <<>>, DefaultThreshold,
                       <<"branch_activity">>, "template"),
       StateDefinition("launcher", <<PatIcon>>, DefaultThreshold,
                       <<"tap_game_icon", "wait">>, "template"),
       StateDefinition("main_menu", <<PatIcon>>, DefaultThreshold,
                       <<>>, "template") >>

Registries == {<<>>, RegShared, RegLoading}

\* Inputs of direct register_state / register_action calls.
States == {"launcher", "game_loading"}
CriterionChoices ==
    { <<PatIcon, DefaultThreshold, "template">>,
      <<PatIcon, 95, "template">>,
      <<PatWhite, DefaultThreshold, "template">>,
      <<PatLoading, DefaultThreshold, "text">>,
      <<PatWhite, SolidThreshold, "solid_color">>,
      <<PatIcon, DefaultThreshold, "histogram">> }
\* Text criteria alone: one pattern under three thresholds, a pattern no frame
\* shows, and the empty pattern.
TextChoices ==
    { <<PatLoading, DefaultThreshold, "text">>,
      <<PatLoading, 95, "text">>,
      <<PatLoading, 0, "text">>,
      <<PatIcon, DefaultThreshold, "text">>,
      <<<<>>, DefaultThreshold, "text">> }
ActionNames == {"tap_game_icon", "wait"}

\* Results an Action.execute() call can have: True, False, or an exception.
ActionOutcomes == {"ok", "false", "error"}

\* Python dicts keep insertion order: a dict is a sequence of key/value pairs.
HasKey(d, k) == \E i \in 1..Len(d) : d[i].key = k
Get(d, k) == d[CHOOSE i \in 1..Len(d) : d[i].key = k].val
Keys(d) == [i \in 1..Len(d) |-> d[i].key]

\* Mutant of DictAppend: a key registered again moves to the end of the dict.
DictAppendMovesKey(d, k, v) ==
    IF HasKey(d, k)
    THEN Append(SelectSeq(d, LAMBDA e : e.key # k),
                [key |-> k, val |-> Append(Get(d, k), v)])
    ELSE Append(d, [key |-> k, val |-> <<v>>])

\* d[k] = [] when k is new, then d[k].append(v).
DictAppend(d, k, v) ==
    LET e == IF HasKey(d, k) THEN d ELSE Append(d, [key |-> k, val |-> <<>>])
    IN [i \in 1..Len(e) |->
          IF e[i].key = k THEN [key |-> k, val |-> Append(e[i].val, v)] ELSE e[i]]

\* ScreenStateManager.register_state on the criteria dict sc.
register_state(sc, state, pattern, threshold, matcher_type) ==
    DictAppend(sc, state,
               [pattern |-> pattern, threshold |-> threshold,
                matcher_type |-> matcher_type])

\* ScreenStateManager.register_action on the actions dict sa.
register_action(sa, state, action) == DictAppend(sa, state, action)

\* ------------------------------------------------- calls of the utils
\* Arguments of a call of template_present, get_template_center or
\* is_solid_color made apart from the engine, and the values returned.
Probe(kind, frame, pattern, threshold, tolerance, std_dev_threshold) ==
    [kind |-> kind, frame |-> frame, pattern |-> pattern, threshold |-> threshold,
     tolerance |-> tolerance, std_dev_threshold |-> std_dev_threshold]
NoProbe == Probe("none", NoFrame, <<>>, 0, 0, 0)
NoResult == [fn |-> "none", raised |-> FALSE, truth |-> FALSE, point |-> <<>>]

\* is_solid_color(..., tolerance=30, std_dev_threshold=20).
DefaultTolerance == 30
DefaultDeviation == 20

TemplateProbes ==
    { Probe("template", Frame("probe", r, sc, <<x, y>>, <<>>, t, 0, 0), p, th, 0, 0) :
         r \in BOOLEAN, t \in BOOLEAN, sc \in {-20, 0, 79, 80, 81, 100},
         x \in {0, 50}, y \in {0, 7}, p \in {PatIcon, PatBadge, PatWhite},
         th \in {0, DefaultThreshold, 95} }

ColourProbes ==
    { Probe("solid_color", Frame("probe", r, 0, <<0, 0>>, <<>>, FALSE, m, sd), p, 0, tol, b) :
         r \in BOOLEAN, m \in 0..White, sd \in {0, DefaultDeviation, DefaultDeviation + 1},
         p \in {PatWhite, PatWhiteCapital, PatBlack, PatGray},
         tol \in {0, DefaultTolerance, 127}, b \in {0, DefaultDeviation} }

\* -------------------------------------------------------------- state
VARIABLES
    REGISTERED_STATES,  \* the module-level registry list
    state_criteria,     \* self.state_criteria
    state_actions,      \* self.state_actions
    template_matcher,   \* self.template_matcher is set
    text_extractor,     \* self.text_extractor is set
    poll_interval,      \* self.poll_interval, in milliseconds
    is_running,         \* self.is_running
    current_state,      \* self.current_state
    previous_state,     \* self.previous_state
    unmatched_count,    \* self.unmatched_count
    archive,            \* number of unknown_<timestamp>.png files in unknown_states/
    log_lines,          \* number of lines of unknown_states/unknown_states.log
    stamp_used,         \* a file in unknown_states/ is named by the present millisecond
    pc,                 \* where run() stands; "idle" outside run()
    max_iterations,     \* run's parameter
    iteration,          \* run's local
    state_hold_frames,  \* run's local
    screenshot_path,    \* run's local: the frame of this iteration
    detected_state,     \* run's local
    action_idx,         \* position of the for loop of _execute_state_actions
    out,                \* diagnostics printed by the last step
    executed,           \* action lines printed since the last screenshot
    captures,           \* screenshot callbacks made by this run() call
    total_captures,     \* screenshot callbacks made on this engine
    prev_detected,      \* what the previous iteration of this run detected
    start_state,        \* current_state when this run() call began
    probe,              \* arguments of the utils function called outside the engine
    ret                 \* what that call returned

vars ==
    << REGISTERED_STATES, state_criteria, state_actions, template_matcher,
       text_extractor, poll_interval, is_running, current_state, previous_state,
       unmatched_count, archive, log_lines, stamp_used, pc, max_iterations, iteration,
       state_hold_frames, screenshot_path, detected_state, action_idx, out,
       executed, captures, total_captures, prev_detected, start_state,
       probe, ret >>

registry_vars == << REGISTERED_STATES, state_criteria, state_actions >>
matcher_vars == << template_matcher, text_extractor >>
engine_vars == << current_state, previous_state, unmatched_count >>
disk_vars == << archive, log_lines, stamp_used >>
local_vars == << max_iterations, iteration, state_hold_frames >>
ghost_vars == << captures, total_captures, prev_detected, start_state >>
util_vars == << probe, ret >>

\* ---------------------------------------------------------- detection
\* Mutant of EvalCriterion: a missing adapter is skipped without a message.
EvalCriterionSilent(frame, c) ==
    IF c.matcher_type = "template"
    THEN IF ~template_matcher
         THEN [matched |-> FALSE, diag |-> <<>>, called |-> FALSE]
         ELSE LET r == template_present(frame, c.pattern, c.threshold) IN
              IF r.raised
              THEN [matched |-> FALSE, diag |-> <<"Error matching template">>,
                    called |-> TRUE]
              ELSE [matched |-> r.value, diag |-> <<>>, called |-> TRUE]
    ELSE IF c.matcher_type = "text"
    THEN IF ~text_extractor
         THEN [matched |-> FALSE, diag |-> <<>>, called |-> FALSE]
         ELSE [matched |-> Contains(Lower(c.pattern), Lower(extract_text(frame))),
               diag |-> <<>>, called |-> TRUE]
    ELSE [matched |-> FALSE, diag |-> <<>>, called |-> FALSE]

\* Mutant of EvalCriterion: a text criterion also asks the frame's score to
\* reach its threshold.
EvalCriterionTextThreshold(frame, c) ==
    IF c.matcher_type = "template"
    THEN IF ~template_matcher
         THEN [matched |-> FALSE, diag |-> <<"ERROR: No template matcher set!">>,
               called |-> FALSE]
         ELSE LET r == template_present(frame, c.pattern, c.threshold) IN
              IF r.raised
              THEN [matched |-> FALSE, diag |-> <<"Error matching template">>,
                    called |-> TRUE]
              ELSE [matched |-> r.value, diag |-> <<>>, called |-> TRUE]
    ELSE IF c.matcher_type = "text"
    THEN IF ~text_extractor
         THEN [matched |-> FALSE, diag |-> <<"ERROR: No text extractor set!">>,
               called |-> FALSE]
         ELSE [matched |-> /\ Contains(Lower(c.pattern), Lower(extract_text(frame)))
                           /\ frame.score >= c.threshold,
               diag |-> <<>>, called |-> TRUE]
    ELSE [matched |-> FALSE, diag |-> <<>>, called |-> FALSE]

\* One pass of the for loop body of _match_state_criterion over criterion c:
\* whether it matched, the diagnostic printed, if any, and whether the bound
\* matcher function was called.
EvalCriterion(frame, c) ==
    IF c.matcher_type = "template"
    THEN IF ~template_matcher
         THEN [matched |-> FALSE, diag |-> <<"ERROR: No template matcher set!">>,
               called |-> FALSE]
         ELSE LET r == template_present(frame, c.pattern, c.threshold) IN
              IF r.raised
              THEN [matched |-> FALSE, diag |-> <<"Error matching template">>,
                    called |-> TRUE]
              ELSE [matched |-> r.value, diag |-> <<>>, called |-> TRUE]
    ELSE IF c.matcher_type = "text"
    THEN IF ~text_extractor
         THEN [matched |-> FALSE, diag |-> <<"ERROR: No text extractor set!">>,
               called |-> FALSE]
         ELSE [matched |-> Contains(Lower(c.pattern), Lower(extract_text(frame))),
               diag |-> <<>>, called |-> TRUE]
    ELSE [matched |-> FALSE, diag |-> <<>>, called |-> FALSE]

\* Mutant of MatchFrom: every criterion of the state is evaluated and the
\* results are or-ed.
RECURSIVE MatchFromAll(_, _, _)
MatchFromAll(frame, criteria_list, i) ==
    IF i > Len(criteria_list)
    THEN [matched |-> FALSE, diags |-> <<>>, calls |-> <<>>]
    ELSE LET e == EvalCriterion(frame, criteria_list[i])
             rest == MatchFromAll(frame, criteria_list, i + 1) IN
         [matched |-> e.matched \/ rest.matched, diags |-> e.diag \o rest.diags,
          calls |-> (IF e.called THEN <<i>> ELSE <<>>) \o rest.calls]

\* Mutant of MatchFrom: a criterion whose matcher raised ends the loop over
\* the criteria of the state.
RECURSIVE MatchFromAbortsOnFault(_, _, _)
MatchFromAbortsOnFault(frame, criteria_list, i) ==
    IF i > Len(criteria_list)
    THEN [matched |-> FALSE, diags |-> <<>>, calls |-> <<>>]
    ELSE LET e == EvalCriterion(frame, criteria_list[i])
             here == IF e.called THEN <<i>> ELSE <<>> IN
         IF e.matched
         THEN [matched |-> TRUE, diags |-> e.diag, calls |-> here]
         ELSE IF e.called /\ e.diag # <<>>
         THEN [matched |-> FALSE, diags |-> e.diag, calls |-> here]
         ELSE LET rest == MatchFromAbortsOnFault(frame, criteria_list, i + 1) IN
              [matched |-> rest.matched, diags |-> e.diag \o rest.diags,
               calls |-> here \o rest.calls]

\* The for loop of _match_state_criterion from criterion i on: the result, the
\* diagnostics printed and the criteria whose matcher function was called.
RECURSIVE MatchFrom(_, _, _)
MatchFrom(frame, criteria_list, i) ==
    IF i > Len(criteria_list)
    THEN [matched |-> FALSE, diags |-> <<>>, calls |-> <<>>]
    ELSE LET e == EvalCriterion(frame, criteria_list[i])
             here == IF e.called THEN <<i>> ELSE <<>> IN
         IF e.matched
         THEN [matched |-> TRUE, diags |-> e.diag, calls |-> here]
         ELSE LET rest == MatchFrom(frame, criteria_list, i + 1) IN
              [matched |-> rest.matched, diags |-> e.diag \o rest.diags,
               calls |-> here \o rest.calls]

\* ScreenStateManager._match_state_criterion.
match_state_criterion(frame, state) ==
    IF ~HasKey(state_criteria, state)
    THEN [matched |-> FALSE, diags |-> <<>>, calls |-> <<>>]
    ELSE MatchFrom(frame, Get(state_criteria, state), 1)

\* The matcher calls made for the i-th state, as positions of the registry.
CallsAt(i, calls) == [k \in 1..Len(calls) |-> <<i, calls[k]>>]

\* Mutant of DetectFrom: a later match overrides an earlier one.
RECURSIVE DetectFromLastWins(_, _)
DetectFromLastWins(frame, i) ==
    IF i > Len(state_criteria)
    THEN [state |-> NoState, diags |-> <<>>, calls |-> <<>>]
    ELSE LET m == match_state_criterion(frame, state_criteria[i].key)
             rest == DetectFromLastWins(frame, i + 1) IN
         IF m.matched /\ rest.state = NoState
         THEN [state |-> state_criteria[i].key, diags |-> m.diags \o rest.diags,
               calls |-> CallsAt(i, m.calls) \o rest.calls]
         ELSE [state |-> rest.state, diags |-> m.diags \o rest.diags,
               calls |-> CallsAt(i, m.calls) \o rest.calls]

\* The for loop of _detect_state from the i-th key on.
RECURSIVE DetectFrom(_, _)
DetectFrom(frame, i) ==
    IF i > Len(state_criteria)
    THEN [state |-> NoState, diags |-> <<>>, calls |-> <<>>]
    ELSE LET m == match_state_criterion(frame, state_criteria[i].key) IN
         IF m.matched
         THEN [state |-> state_criteria[i].key, diags |-> m.diags,
               calls |-> CallsAt(i, m.calls)]
         ELSE LET rest == DetectFrom(frame, i + 1) IN
              [state |-> rest.state, diags |-> m.diags \o rest.diags,
               calls |-> CallsAt(i, m.calls) \o rest.calls]

\* Mutant of detect_state: a frame no criterion matches is taken for the first
\* state that has actions and no criterion.
DetectWithFallback(frame) ==
    LET r == DetectFrom(frame, 1)
        fallback == { i \in 1..Len(state_actions) :
                         ~HasKey(state_criteria, state_actions[i].key) } IN
    IF r.state = NoState /\ fallback # {}
    THEN [state |-> state_actions[CHOOSE i \in fallback : \A k \in fallback : i <= k].key,
          diags |-> r.diags, calls |-> r.calls]
    ELSE r

\* Mutant of detect_state: a frame already classified is not classified again.
DetectOnce(frame) ==
    IF pc = "detected"
    THEN [state |-> NoState, diags |-> <<>>, calls |-> <<>>]
    ELSE DetectFrom(frame, 1)

\* ScreenStateManager._detect_state.
detect_state(frame) == DetectFrom(frame, 1)

\* ------------------------------------------------------- construction
\* ScreenStateManager.__init__: the unknown_states folder is created if it is
\* missing and otherwise kept with what an earlier process left in it.
InitEngine ==
    /\ state_criteria = <<>>
    /\ state_actions = <<>>
    /\ template_matcher = FALSE
    /\ text_extractor = FALSE
    /\ poll_interval \in {0, 1}
    /\ is_running = FALSE
    /\ current_state = NoState
    /\ previous_state = NoState
    /\ unmatched_count = 0
    /\ archive \in {0, 1}
    /\ log_lines = archive
    /\ stamp_used = FALSE
    /\ pc = "idle"
    /\ max_iterations = NoBudget
    /\ iteration = 0
    /\ state_hold_frames = 0
    /\ screenshot_path = NoFrame
    /\ detected_state = NoState
    /\ action_idx = 0
    /\ out = <<>>
    /\ executed = <<>>
    /\ captures = 0
    /\ total_captures = 0
    /\ prev_detected = NoState
    /\ start_state = NoState
    /\ ret = NoResult

Init == REGISTERED_STATES \in Registries /\ InitEngine /\ probe = NoProbe

\* ------------------------------------------------------------- set-up
\* set_template_matcher(template_present).
SetTemplateMatcher ==
    /\ pc = "idle"
    /\ ~template_matcher
    /\ template_matcher' = TRUE
    /\ out' = <<>>
    /\ UNCHANGED << registry_vars, text_extractor, poll_interval, util_vars, is_running,
                    engine_vars, disk_vars, pc, local_vars, screenshot_path,
                    detected_state, action_idx, executed, ghost_vars >>

\* set_text_extractor(extract_text).
SetTextExtractor ==
    /\ pc = "idle"
    /\ ~text_extractor
    /\ text_extractor' = TRUE
    /\ out' = <<>>
    /\ UNCHANGED << registry_vars, template_matcher, poll_interval, util_vars, is_running,
                    engine_vars, disk_vars, pc, local_vars, screenshot_path,
                    detected_state, action_idx, executed, ghost_vars >>

\* Number of criteria / actions held by a dict of lists.
RECURSIVE TotalLen(_, _)
TotalLen(d, i) == IF i > Len(d) THEN 0 ELSE Len(d[i].val) + TotalLen(d, i + 1)

\* register_state called directly.
RegisterState(state, pattern, threshold, matcher_type) ==
    /\ pc = "idle"
    /\ state_criteria' =
          register_state(state_criteria, state, pattern, threshold, matcher_type)
    /\ out' = <<>>
    /\ UNCHANGED << REGISTERED_STATES, state_actions, matcher_vars, poll_interval, util_vars,
                    is_running, engine_vars, disk_vars, pc, local_vars,
                    screenshot_path, detected_state, action_idx, executed, ghost_vars >>

\* register_action called directly.
RegisterAction(state, action) ==
    /\ pc = "idle"
    /\ state_actions' = register_action(state_actions, state, action)
    /\ out' = <<>>
    /\ UNCHANGED << REGISTERED_STATES, state_criteria, matcher_vars, poll_interval, util_vars,
                    is_running, engine_vars, disk_vars, pc, local_vars,
                    screenshot_path, detected_state, action_idx, executed, ghost_vars >>

\* Mutant of RegisterPatterns: every pattern registered at the default
\* threshold of register_state.
RECURSIVE RegisterPatternsDefault(_, _, _)
RegisterPatternsDefault(sc, def, i) ==
    IF i > Len(def.patterns) THEN sc
    ELSE RegisterPatternsDefault(
            register_state(sc, def.state, def.patterns[i], DefaultThreshold,
                           def.matcher_type),
            def, i + 1)

\* The inner loops of load_registered_states for one definition.
RECURSIVE RegisterPatterns(_, _, _)
RegisterPatterns(sc, def, i) ==
    IF i > Len(def.patterns) THEN sc
    ELSE RegisterPatterns(
            register_state(sc, def.state, def.patterns[i], def.threshold,
                           def.matcher_type),
            def, i + 1)

RECURSIVE RegisterActions(_, _, _)
RegisterActions(sa, def, i) ==
    IF i > Len(def.actions) THEN sa
    ELSE RegisterActions(register_action(sa, def.state, def.actions[i]), def, i + 1)

\* The outer loop of load_registered_states from definition i on.
RECURSIVE LoadCriteria(_, _)
LoadCriteria(sc, i) ==
    IF i > Len(REGISTERED_STATES) THEN sc
    ELSE LoadCriteria(RegisterPatterns(sc, REGISTERED_STATES[i], 1), i + 1)

RECURSIVE LoadActions(_, _)
LoadActions(sa, i) ==
    IF i > Len(REGISTERED_STATES) THEN sa
    ELSE LoadActions(RegisterActions(sa, REGISTERED_STATES[i], 1), i + 1)

\* load_registered_states, called once on a fresh engine as setup_bot does.
LoadRegisteredStates ==
    /\ pc = "idle"
    /\ REGISTERED_STATES # <<>>
    /\ state_criteria = <<>>
    /\ state_actions = <<>>
    /\ state_criteria' = LoadCriteria(state_criteria, 1)
    /\ state_actions' = LoadActions(state_actions, 1)
    /\ out' = <<>>
    /\ UNCHANGED << REGISTERED_STATES, matcher_vars, poll_interval, util_vars, is_running,
                    engine_vars, disk_vars, pc, local_vars, screenshot_path,
                    detected_state, action_idx, executed, ghost_vars >>

\* Patterns in the registry, each one a register_state call of one load.
RECURSIVE PatternCount(_)
PatternCount(i) ==
    IF i > Len(REGISTERED_STATES) THEN 0
    ELSE Len(REGISTERED_STATES[i].patterns) + PatternCount(i + 1)

\* load_registered_states called again on an engine that has loaded already:
\* the same loop over the same list, appending to what the engine holds.
LoadRegisteredStatesAgain ==
    /\ pc = "idle"
    /\ REGISTERED_STATES # <<>>
    /\ state_criteria # <<>> \/ state_actions # <<>>
    /\ TotalLen(state_criteria, 1) < MaxLoads * PatternCount(1)
    /\ state_criteria' = LoadCriteria(state_criteria, 1)
    /\ state_actions' = LoadActions(state_actions, 1)
    /\ out' = <<>>
    /\ UNCHANGED << REGISTERED_STATES, matcher_vars, poll_interval, util_vars, is_running,
                    engine_vars, disk_vars, pc, local_vars, screenshot_path,
                    detected_state, action_idx, executed, ghost_vars >>

\* A state module is imported and calls auto_register_state; the imports
\* come before the engine loads the list.
AutoRegisterState(call) ==
    /\ pc = "idle"
    /\ state_criteria = <<>>
    /\ state_actions = <<>>
    /\ LET r == auto_register_state(call.state, call.pattern, call.actions,
                                    DefaultThreshold, "template", call.patterns) IN
       /\ REGISTERED_STATES' = Append(REGISTERED_STATES, r.def)
       /\ out' = r.diags
    /\ UNCHANGED << state_criteria, state_actions, matcher_vars, poll_interval, util_vars,
                    is_running, engine_vars, disk_vars, pc, local_vars,
                    screenshot_path, detected_state, action_idx, executed, ghost_vars >>

\* template_present(screenshot_file, template_file, threshold) called on its own.
CallTemplatePresent ==
    /\ probe.kind = "template"
    /\ LET r == template_present(probe.frame, probe.pattern, probe.threshold) IN
       ret' = [fn |-> "template_present", raised |-> r.raised, truth |-> r.value,
               point |-> <<>>]
    /\ UNCHANGED << registry_vars, matcher_vars, poll_interval, is_running,
                    engine_vars, disk_vars, pc, local_vars, screenshot_path,
                    detected_state, action_idx, out, executed, ghost_vars, probe >>

\* get_template_center(screenshot_file, template_file, threshold) called on
\* its own, as find_icon_and_tap does.
CallGetTemplateCenter ==
    /\ probe.kind = "template"
    /\ LET r == get_template_center(probe.frame, probe.pattern, probe.threshold) IN
       ret' = [fn |-> "get_template_center", raised |-> r.raised, truth |-> FALSE,
               point |-> r.value]
    /\ UNCHANGED << registry_vars, matcher_vars, poll_interval, is_running,
                    engine_vars, disk_vars, pc, local_vars, screenshot_path,
                    detected_state, action_idx, out, executed, ghost_vars, probe >>

\* is_solid_color(image_path, color_name, tolerance, std_dev_threshold) called
\* on its own.
CallIsSolidColor ==
    /\ probe.kind = "solid_color"
    /\ ret' = [fn |-> "is_solid_color", raised |-> FALSE,
               truth |-> is_solid_color(probe.frame, probe.pattern, probe.tolerance,
                                        probe.std_dev_threshold),
               point |-> <<>>]
    /\ UNCHANGED << registry_vars, matcher_vars, poll_interval, is_running,
                    engine_vars, disk_vars, pc, local_vars, screenshot_path,
                    detected_state, action_idx, out, executed, ghost_vars, probe >>

\* ----------------------------------------------------------- run loop
\* Mutant of Truthy: only None is no budget.
TruthyUnlessNone(m) == m # NoBudget

\* Python truth value of max_iterations: None and 0 are both false.
Truthy(m) == m # NoBudget /\ m # 0

\* Mutant of BudgetReached: the budget is never looked at.
BudgetIgnored == FALSE

\* Mutant of BudgetReached: the comparison is strict.
BudgetReachedLate == Truthy(max_iterations) /\ iteration > max_iterations

\* `max_iterations and iteration >= max_iterations`.
BudgetReached == Truthy(max_iterations) /\ iteration >= max_iterations

\* Mutant of RunChecksPass: the matcher check is missing.
RunChecksOnlyStates == state_criteria # <<>>

\* Mutant of RunChecksPass: either matcher is enough.
RunChecksAnyMatcher == (template_matcher \/ text_extractor) /\ state_criteria # <<>>

\* The two checks run() makes before it touches anything.
RunChecksPass == template_matcher /\ state_criteria # <<>>

\* Budgets run() is called with.
Budgets == {NoBudget} \cup (0..MaxCaptures)

\* Mutant of Run: the archive folder is not swept.
RunKeepsArchive(budget) ==
    /\ pc = "idle"
    /\ IF ~RunChecksPass
       THEN /\ out' = IF ~template_matcher
                      THEN <<"ERROR: Template matcher not set">>
                      ELSE <<"ERROR: No states registered">>
            /\ UNCHANGED << is_running, disk_vars, pc, local_vars, executed,
                            captures, prev_detected, start_state >>
       ELSE /\ UNCHANGED disk_vars
            /\ is_running' = TRUE
            /\ max_iterations' = budget
            /\ iteration' = 0
            /\ state_hold_frames' = 0
            /\ pc' = "top"
            /\ out' = <<>>
            /\ executed' = <<>>
            /\ captures' = 0
            /\ prev_detected' = NoState
            /\ start_state' = current_state
    /\ UNCHANGED << registry_vars, matcher_vars, poll_interval, util_vars, engine_vars,
                    screenshot_path, detected_state, action_idx, total_captures >>

\* Mutant of Run: the hold counter of the run before is carried on.
RunKeepsHoldFrames(budget) ==
    /\ pc = "idle"
    /\ IF ~RunChecksPass
       THEN /\ out' = IF ~template_matcher
                      THEN <<"ERROR: Template matcher not set">>
                      ELSE <<"ERROR: No states registered">>
            /\ UNCHANGED << is_running, disk_vars, pc, local_vars, executed,
                            captures, prev_detected, start_state >>
       ELSE /\ archive' = 0
            /\ log_lines' = 0
            /\ stamp_used' = FALSE
            /\ is_running' = TRUE
            /\ max_iterations' = budget
            /\ iteration' = 0
            /\ state_hold_frames' = state_hold_frames
            /\ pc' = "top"
            /\ out' = <<>>
            /\ executed' = <<>>
            /\ captures' = 0
            /\ prev_detected' = NoState
            /\ start_state' = current_state
    /\ UNCHANGED << registry_vars, matcher_vars, poll_interval, util_vars, engine_vars,
                    screenshot_path, detected_state, action_idx, total_captures >>

\* Mutant of Run: every call starts from a fresh engine state.
RunResetsEngine(budget) ==
    /\ pc = "idle"
    /\ IF ~RunChecksPass
       THEN /\ out' = IF ~template_matcher
                      THEN <<"ERROR: Template matcher not set">>
                      ELSE <<"ERROR: No states registered">>
            /\ UNCHANGED << is_running, disk_vars, pc, local_vars, executed,
                            captures, prev_detected, start_state >>
       ELSE /\ archive' = 0
            /\ log_lines' = 0
            /\ stamp_used' = FALSE
            /\ is_running' = TRUE
            /\ max_iterations' = budget
            /\ iteration' = 0
            /\ state_hold_frames' = 0
            /\ pc' = "top"
            /\ out' = <<>>
            /\ executed' = <<>>
            /\ captures' = 0
            /\ prev_detected' = NoState
            /\ start_state' = current_state
    /\ current_state' = NoState
    /\ previous_state' = NoState
    /\ unmatched_count' = 0
    /\ UNCHANGED << registry_vars, matcher_vars, poll_interval, util_vars,
                    screenshot_path, detected_state, action_idx, total_captures >>

\* Mutant of Run: is_running is left as the caller set it, so a stop()
\* requested before the call still holds at the loop condition.
RunKeepsFlag(budget) ==
    /\ pc = "idle"
    /\ IF ~RunChecksPass
       THEN /\ out' = IF ~template_matcher
                      THEN <<"ERROR: Template matcher not set">>
                      ELSE <<"ERROR: No states registered">>
            /\ UNCHANGED << is_running, disk_vars, pc, local_vars, executed,
                            captures, prev_detected, start_state >>
       ELSE /\ archive' = 0
            /\ log_lines' = 0
            /\ stamp_used' = FALSE
            /\ is_running' = is_running
            /\ max_iterations' = budget
            /\ iteration' = 0
            /\ state_hold_frames' = 0
            /\ pc' = "top"
            /\ out' = <<>>
            /\ executed' = <<>>
            /\ captures' = 0
            /\ prev_detected' = NoState
            /\ start_state' = current_state
    /\ UNCHANGED << registry_vars, matcher_vars, poll_interval, util_vars, engine_vars,
                    screenshot_path, detected_state, action_idx, total_captures >>

\* Mutant of Run: the unmatched counter counts the frames of one run.
RunResetsCount(budget) ==
    /\ pc = "idle"
    /\ IF ~RunChecksPass
       THEN /\ out' = IF ~template_matcher
                      THEN <<"ERROR: Template matcher not set">>
                      ELSE <<"ERROR: No states registered">>
            /\ UNCHANGED << is_running, disk_vars, pc, local_vars, executed,
                            captures, prev_detected, start_state >>
       ELSE /\ archive' = 0
            /\ log_lines' = 0
            /\ stamp_used' = FALSE
            /\ is_running' = TRUE
            /\ max_iterations' = budget
            /\ iteration' = 0
            /\ state_hold_frames' = 0
            /\ pc' = "top"
            /\ out' = <<>>
            /\ executed' = <<>>
            /\ captures' = 0
            /\ prev_detected' = NoState
            /\ start_state' = current_state
    /\ unmatched_count' = 0
    /\ UNCHANGED << registry_vars, matcher_vars, poll_interval, util_vars,
                    current_state, previous_state,
                    screenshot_path, detected_state, action_idx, total_captures >>

\* run(max_iterations) up to the while loop: refused with a message, or the
\* archive folder cleared (the log file lies in it) and the locals set.
Run(budget) ==
    /\ pc = "idle"
    /\ IF ~RunChecksPass
       THEN /\ out' = IF ~template_matcher
                      THEN <<"ERROR: Template matcher not set">>
                      ELSE <<"ERROR: No states registered">>
            /\ UNCHANGED << is_running, disk_vars, pc, local_vars, executed,
                            captures, prev_detected, start_state >>
       ELSE /\ archive' = 0
            /\ log_lines' = 0
            /\ stamp_used' = FALSE
            /\ is_running' = TRUE
            /\ max_iterations' = budget
            /\ iteration' = 0
            /\ state_hold_frames' = 0
            /\ pc' = "top"
            /\ out' = <<>>
            /\ executed' = <<>>
            /\ captures' = 0
            /\ prev_detected' = NoState
            /\ start_state' = current_state
    /\ UNCHANGED << registry_vars, matcher_vars, poll_interval, util_vars, engine_vars,
                    screenshot_path, detected_state, action_idx, total_captures >>

\* run(max_iterations) when _clear_unknown_states fails: an unlink raises, the
\* loop over the files of the folder ends there, the error is printed, the
\* files not yet reached stay (the log file may be one of them), and run()
\* goes on to the loop as it does after a clean sweep.
RunClearFails(budget) ==
    /\ pc = "idle"
    /\ RunChecksPass
    /\ \E keptFiles \in 0..archive, keptLog \in BOOLEAN :
          /\ archive' = keptFiles
          /\ log_lines' = IF keptLog THEN log_lines ELSE 0
          /\ stamp_used' = (stamp_used /\ keptFiles = archive)
    /\ out' = <<"ERROR: Failed to clear unknown_states folder">>
    /\ is_running' = TRUE
    /\ max_iterations' = budget
    /\ iteration' = 0
    /\ state_hold_frames' = 0
    /\ pc' = "top"
    /\ executed' = <<>>
    /\ captures' = 0
    /\ prev_detected' = NoState
    /\ start_state' = current_state
    /\ UNCHANGED << registry_vars, matcher_vars, poll_interval, util_vars, engine_vars,
                    screenshot_path, detected_state, action_idx, total_captures >>

\* Mutant of Capture: the next screenshot is taken without waiting for the
\* poll interval of the iteration before it.
CaptureOverlaps ==
    /\ pc \in {"top", "sleep"}
    /\ is_running
    /\ ~BudgetReached
    /\ total_captures < MaxCaptures
    /\ iteration' = iteration + 1
    /\ \E f \in Frames : screenshot_path' = f
    /\ pc' = "captured"
    /\ out' = <<>>
    /\ executed' = <<>>
    /\ captures' = captures + 1
    /\ total_captures' = total_captures + 1
    /\ prev_detected' = IF iteration = 0 THEN NoState ELSE detected_state
    /\ UNCHANGED << registry_vars, matcher_vars, poll_interval, util_vars, is_running,
                    engine_vars, disk_vars, max_iterations, state_hold_frames,
                    detected_state, action_idx, start_state >>

\* The loop condition holds and the budget is not used up: count the
\* iteration and take the screenshot.
Capture ==
    /\ pc = "top"
    /\ is_running
    /\ ~BudgetReached
    /\ total_captures < MaxCaptures
    /\ iteration' = iteration + 1
    /\ \E f \in Frames : screenshot_path' = f
    /\ pc' = "captured"
    /\ out' = <<>>
    /\ executed' = <<>>
    /\ captures' = captures + 1
    /\ total_captures' = total_captures + 1
    /\ prev_detected' = IF iteration = 0 THEN NoState ELSE detected_state
    /\ UNCHANGED << registry_vars, matcher_vars, poll_interval, util_vars, is_running,
                    engine_vars, disk_vars, max_iterations, state_hold_frames,
                    detected_state, action_idx, start_state >>

\* The screenshot callback raises: nothing in the loop body catches it, the
\* handler of run() prints the error and raises it again to the caller of
\* run(), and the finally clause clears is_running.
CaptureRaises ==
    /\ pc = "top"
    /\ is_running
    /\ ~BudgetReached
    /\ iteration' = iteration + 1
    /\ out' = <<"State machine error">>
    /\ is_running' = FALSE
    /\ pc' = "idle"
    /\ UNCHANGED << registry_vars, matcher_vars, poll_interval, util_vars, engine_vars,
                    disk_vars, max_iterations, state_hold_frames, screenshot_path,
                    detected_state, action_idx, executed, ghost_vars >>

\* The loop ends: is_running is false, or the budget is used up (break);
\* the finally clause clears is_running and run() returns.
LoopExit ==
    /\ pc = "top"
    /\ ~is_running \/ BudgetReached
    /\ out' = IF is_running THEN <<"Reached max iterations">> ELSE <<>>
    /\ is_running' = FALSE
    /\ pc' = "idle"
    /\ UNCHANGED << registry_vars, matcher_vars, poll_interval, util_vars, engine_vars,
                    disk_vars, local_vars, screenshot_path, detected_state,
                    action_idx, executed, ghost_vars >>

\* detected_state = self._detect_state(screenshot_path).
DetectStep ==
    /\ pc = "captured"
    /\ LET r == detect_state(screenshot_path) IN
       /\ detected_state' = r.state
       /\ out' = r.diags
    /\ pc' = "detected"
    /\ UNCHANGED << registry_vars, matcher_vars, poll_interval, util_vars, is_running,
                    engine_vars, disk_vars, local_vars, screenshot_path,
                    action_idx, executed, ghost_vars >>

\* _detect_state called once more on the frame just classified, as a caller
\* of the engine may do.
DetectAgain ==
    /\ pc = "detected"
    /\ LET r == detect_state(screenshot_path) IN
       /\ detected_state' = r.state
       /\ out' = r.diags
    /\ pc' = "redetected"
    /\ UNCHANGED << registry_vars, matcher_vars, poll_interval, util_vars, is_running,
                    engine_vars, disk_vars, local_vars, screenshot_path,
                    action_idx, executed, ghost_vars >>

\* Mutant of save_unknown_state: the counter is incremented after the copy, so
\* a frame whose copy fails is not counted.
SaveCountsAfterCopy(frame, logOk) ==
    IF ~frame.readable
    THEN [count |-> unmatched_count, archive |-> archive, log |-> log_lines,
          stamp |-> stamp_used,
          diags |-> <<"ERROR: Failed to save unknown state screenshot">>]
    ELSE [count |-> unmatched_count + 1,
          archive |-> IF stamp_used THEN archive ELSE archive + 1,
          log |-> IF logOk THEN log_lines + 1 ELSE log_lines,
          stamp |-> TRUE,
          diags |-> IF logOk THEN <<>> ELSE <<"ERROR: Failed to write to log">>]

\* Mutant of save_unknown_state: no return after a failed copy, so the log
\* line is written for a file that does not exist.
SaveLogsAfterFailedCopy(frame, logOk) ==
    IF ~frame.readable
    THEN [count |-> unmatched_count + 1, archive |-> archive,
          log |-> IF logOk THEN log_lines + 1 ELSE log_lines,
          stamp |-> stamp_used,
          diags |-> <<"ERROR: Failed to save unknown state screenshot">>]
    ELSE [count |-> unmatched_count + 1,
          archive |-> IF stamp_used THEN archive ELSE archive + 1,
          log |-> IF logOk THEN log_lines + 1 ELSE log_lines,
          stamp |-> TRUE,
          diags |-> IF logOk THEN <<>> ELSE <<"ERROR: Failed to write to log">>]

\* _save_unknown_state: the counter, then the copy to a file named by the
\* millisecond timestamp (it fails for a frame that cannot be read, and then
\* nothing is logged; it overwrites the file of an earlier frame saved in the
\* same millisecond), then the log line, whose write succeeds or not.
save_unknown_state(frame, logOk) ==
    IF ~frame.readable
    THEN [count |-> unmatched_count + 1, archive |-> archive, log |-> log_lines,
          stamp |-> stamp_used,
          diags |-> <<"ERROR: Failed to save unknown state screenshot">>]
    ELSE [count |-> unmatched_count + 1,
          archive |-> IF stamp_used THEN archive ELSE archive + 1,
          log |-> IF logOk THEN log_lines + 1 ELSE log_lines,
          stamp |-> TRUE,
          diags |-> IF logOk THEN <<>> ELSE <<"ERROR: Failed to write to log">>]

\* Whether _execute_state_actions(state) has an action to run.
HasActions(state) ==
    HasKey(state_actions, state) /\ Len(Get(state_actions, state)) > 0

\* Mutant of StateChanged: every detection counts as a change of state.
StateChangedAlways == TRUE

\* Mutant of StateChanged: a state that was left one change ago does not count
\* as new when it comes back.
StateChangedSincePrevious ==
    detected_state # current_state /\ detected_state # previous_state

\* `detected_state != self.current_state`.
StateChanged == detected_state # current_state

\* Mutant of Transition: a lost classification empties current_state and
\* leaves previous_state as it was.
TransitionOverwrites ==
    /\ pc = "detected"
    /\ IF detected_state # NoState
       THEN IF StateChanged
            THEN /\ previous_state' = current_state
                 /\ current_state' = detected_state
                 /\ state_hold_frames' = 1
                 /\ IF HasActions(detected_state)
                    THEN pc' = "actions" /\ action_idx' = 1
                    ELSE pc' = "sleep" /\ action_idx' = 0
                 /\ out' = <<>>
                 /\ UNCHANGED << unmatched_count, disk_vars >>
            ELSE /\ state_hold_frames' = state_hold_frames + 1
                 /\ pc' = "sleep"
                 /\ out' = <<>>
                 /\ UNCHANGED << engine_vars, disk_vars, action_idx >>
       ELSE \E logOk \in BOOLEAN :
               LET s == save_unknown_state(screenshot_path, logOk) IN
               /\ unmatched_count' = s.count
               /\ archive' = s.archive
               /\ log_lines' = s.log
               /\ stamp_used' = s.stamp
               /\ out' = s.diags
               /\ current_state' = NoState
               /\ UNCHANGED previous_state
               /\ pc' = "sleep"
               /\ UNCHANGED << state_hold_frames, action_idx >>
    /\ UNCHANGED << registry_vars, matcher_vars, poll_interval, util_vars, is_running,
                    max_iterations, iteration, screenshot_path, detected_state,
                    executed, ghost_vars >>

\* Mutant of Transition: a failure of the copy or of the log write leaves
\* current_state and previous_state as they were.
TransitionLostOnArchiveFailure ==
    /\ pc = "detected"
    /\ IF detected_state # NoState
       THEN IF StateChanged
            THEN /\ previous_state' = current_state
                 /\ current_state' = detected_state
                 /\ state_hold_frames' = 1
                 /\ IF HasActions(detected_state)
                    THEN pc' = "actions" /\ action_idx' = 1
                    ELSE pc' = "sleep" /\ action_idx' = 0
                 /\ out' = <<>>
                 /\ UNCHANGED << unmatched_count, disk_vars >>
            ELSE /\ state_hold_frames' = state_hold_frames + 1
                 /\ pc' = "sleep"
                 /\ out' = <<>>
                 /\ UNCHANGED << engine_vars, disk_vars, action_idx >>
       ELSE \E logOk \in BOOLEAN :
               LET s == save_unknown_state(screenshot_path, logOk) IN
               /\ unmatched_count' = s.count
               /\ archive' = s.archive
               /\ log_lines' = s.log
               /\ stamp_used' = s.stamp
               /\ out' = s.diags
               /\ IF current_state # NoState /\ s.diags = <<>>
                  THEN previous_state' = current_state /\ current_state' = NoState
                  ELSE UNCHANGED << previous_state, current_state >>
               /\ pc' = "sleep"
               /\ UNCHANGED << state_hold_frames, action_idx >>
    /\ UNCHANGED << registry_vars, matcher_vars, poll_interval, util_vars, is_running,
                    max_iterations, iteration, screenshot_path, detected_state,
                    executed, ghost_vars >>

\* Mutant of Transition: an iteration that holds the current state records it
\* as the previous one too.
TransitionRecordsHold ==
    /\ pc = "detected"
    /\ IF detected_state # NoState
       THEN IF StateChanged
            THEN /\ previous_state' = current_state
                 /\ current_state' = detected_state
                 /\ state_hold_frames' = 1
                 /\ IF HasActions(detected_state)
                    THEN pc' = "actions" /\ action_idx' = 1
                    ELSE pc' = "sleep" /\ action_idx' = 0
                 /\ out' = <<>>
                 /\ UNCHANGED << unmatched_count, disk_vars >>
            ELSE /\ state_hold_frames' = state_hold_frames + 1
                 /\ pc' = "sleep"
                 /\ out' = <<>>
                 /\ previous_state' = current_state
                 /\ UNCHANGED << current_state, unmatched_count, disk_vars, action_idx >>
       ELSE \E logOk \in BOOLEAN :
               LET s == save_unknown_state(screenshot_path, logOk) IN
               /\ unmatched_count' = s.count
               /\ archive' = s.archive
               /\ log_lines' = s.log
               /\ stamp_used' = s.stamp
               /\ out' = s.diags
               /\ IF current_state # NoState
                  THEN previous_state' = current_state /\ current_state' = NoState
                  ELSE UNCHANGED << previous_state, current_state >>
               /\ pc' = "sleep"
               /\ UNCHANGED << state_hold_frames, action_idx >>
    /\ UNCHANGED << registry_vars, matcher_vars, poll_interval, util_vars, is_running,
                    max_iterations, iteration, screenshot_path, detected_state,
                    executed, ghost_vars >>

\* Mutant of Transition: a change of state is counted with the unmatched
\* frames.
TransitionCountsChange ==
    /\ pc = "detected"
    /\ IF detected_state # NoState
       THEN IF StateChanged
            THEN /\ previous_state' = current_state
                 /\ current_state' = detected_state
                 /\ state_hold_frames' = 1
                 /\ IF HasActions(detected_state)
                    THEN pc' = "actions" /\ action_idx' = 1
                    ELSE pc' = "sleep" /\ action_idx' = 0
                 /\ out' = <<>>
                 /\ unmatched_count' = unmatched_count + 1
                 /\ UNCHANGED disk_vars
            ELSE /\ state_hold_frames' = state_hold_frames + 1
                 /\ pc' = "sleep"
                 /\ out' = <<>>
                 /\ UNCHANGED << engine_vars, disk_vars, action_idx >>
       ELSE \E logOk \in BOOLEAN :
               LET s == save_unknown_state(screenshot_path, logOk) IN
               /\ unmatched_count' = s.count
               /\ archive' = s.archive
               /\ log_lines' = s.log
               /\ stamp_used' = s.stamp
               /\ out' = s.diags
               /\ IF current_state # NoState
                  THEN previous_state' = current_state /\ current_state' = NoState
                  ELSE UNCHANGED << previous_state, current_state >>
               /\ pc' = "sleep"
               /\ UNCHANGED << state_hold_frames, action_idx >>
    /\ UNCHANGED << registry_vars, matcher_vars, poll_interval, util_vars, is_running,
                    max_iterations, iteration, screenshot_path, detected_state,
                    executed, ghost_vars >>

\* The if/else on detected_state of the loop body, up to the first action.
Transition ==
    /\ pc = "detected"
    /\ IF detected_state # NoState
       THEN IF StateChanged
            THEN /\ previous_state' = current_state
                 /\ current_state' = detected_state
                 /\ state_hold_frames' = 1
                 /\ IF HasActions(detected_state)
                    THEN pc' = "actions" /\ action_idx' = 1
                    ELSE pc' = "sleep" /\ action_idx' = 0
                 /\ out' = <<>>
                 /\ UNCHANGED << unmatched_count, disk_vars >>
            ELSE /\ state_hold_frames' = state_hold_frames + 1
                 /\ pc' = "sleep"
                 /\ out' = <<>>
                 /\ UNCHANGED << engine_vars, disk_vars, action_idx >>
       ELSE \E logOk \in BOOLEAN :
               LET s == save_unknown_state(screenshot_path, logOk) IN
               /\ unmatched_count' = s.count
               /\ archive' = s.archive
               /\ log_lines' = s.log
               /\ stamp_used' = s.stamp
               /\ out' = s.diags
               /\ IF current_state # NoState
                  THEN previous_state' = current_state /\ current_state' = NoState
                  ELSE UNCHANGED << previous_state, current_state >>
               /\ pc' = "sleep"
               /\ UNCHANGED << state_hold_frames, action_idx >>
    /\ UNCHANGED << registry_vars, matcher_vars, poll_interval, util_vars, is_running,
                    max_iterations, iteration, screenshot_path, detected_state,
                    executed, ghost_vars >>

\* `result = action.execute()`: the arguments the engine passes to an action,
\* none; an action whose execute takes a context raises TypeError on it.
ExecuteArgs == <<>>

\* The call _execute_state_actions makes for an action, with the result it
\* prints.
ActionLine(state, action, result) ==
    [state |-> state, action |-> action, args |-> ExecuteArgs, result |-> result]

\* Mutant of ActionAt: the list is walked from its end.
ActionAtReversed(acts, i) == acts[Len(acts) + 1 - i]

\* Mutant of MoreActions: an action that raises ends the loop.
MoreActionsUnlessError(acts, i, r) == i < Len(acts) /\ r # "error"

\* `for action in self.state_actions[state]`: the action of the i-th pass, and
\* whether another pass follows it, whatever the result r of this one.
ActionAt(acts, i) == acts[i]
MoreActions(acts, i, r) == i < Len(acts)

\* One pass of the for loop of _execute_state_actions: the action returns
\* True, returns False (a warning is printed) or raises (the error is printed).
ExecAction ==
    /\ pc = "actions"
    /\ LET acts == Get(state_actions, current_state) IN
       /\ \E r \in ActionOutcomes :
             /\ executed' =
                   Append(executed,
                          ActionLine(current_state, ActionAt(acts, action_idx), r))
             /\ out' = IF r = "false" THEN <<"Warning: Action returned False">>
                       ELSE IF r = "error" THEN <<"Action ERROR">>
                       ELSE <<>>
             /\ IF MoreActions(acts, action_idx, r)
                THEN action_idx' = action_idx + 1 /\ pc' = "actions"
                ELSE action_idx' = 0 /\ pc' = "sleep"
    /\ UNCHANGED << registry_vars, matcher_vars, poll_interval, util_vars, is_running,
                    engine_vars, disk_vars, local_vars, screenshot_path,
                    detected_state, ghost_vars >>

\* time.sleep(self.poll_interval): at least poll_interval passes; with a
\* zero interval the next iteration may start within the same millisecond.
Sleep ==
    /\ pc = "sleep"
    /\ stamp_used' \in (IF poll_interval = 0 THEN {stamp_used, FALSE} ELSE {FALSE})
    /\ pc' = "top"
    /\ out' = <<>>
    /\ UNCHANGED << registry_vars, matcher_vars, poll_interval, util_vars, is_running,
                    engine_vars, archive, log_lines, local_vars, screenshot_path,
                    detected_state, action_idx, executed, ghost_vars >>

\* Mutant of Stop: the request is preemptive, the rest of the iteration is
\* abandoned and the loop condition is tested at once.
StopPreempts ==
    /\ is_running' = FALSE
    /\ out' = <<"Stopping state machine...">>
    /\ pc' = IF pc = "idle" THEN "idle" ELSE "top"
    /\ UNCHANGED << registry_vars, matcher_vars, poll_interval, util_vars, engine_vars,
                    disk_vars, local_vars, screenshot_path,
                    detected_state, action_idx, executed, ghost_vars >>

\* stop(), from another thread or from inside a callback.
Stop ==
    /\ is_running' = FALSE
    /\ out' = <<"Stopping state machine...">>
    /\ UNCHANGED << registry_vars, matcher_vars, poll_interval, util_vars, engine_vars,
                    disk_vars, pc, local_vars, screenshot_path,
                    detected_state, action_idx, executed, ghost_vars >>

\* Where a KeyboardInterrupt can land inside the try block of run(): between
\* two steps of the loop, or inside the next one: after `iteration += 1` and
\* before the screenshot is back; after `self.unmatched_count += 1` and before
\* the copy; after `self.previous_state = self.current_state` and before the
\* assignment to current_state that follows it.
InterruptPoints == {"between", "counting", "counted", "half"}

\* Mutant of Interrupt: the interrupt is raised to the caller of run() and
\* the finally clause is missing.
InterruptRaises(point) ==
    /\ pc # "idle"
    /\ \/ /\ point = "between"
          /\ UNCHANGED << engine_vars, disk_vars, iteration >>
       \/ /\ point = "counting"
          /\ pc = "top" /\ is_running /\ ~BudgetReached
          /\ iteration' = iteration + 1
          /\ UNCHANGED << engine_vars, disk_vars >>
       \/ /\ point = "counted"
          /\ pc = "detected" /\ detected_state = NoState
          /\ unmatched_count' = unmatched_count + 1
          /\ UNCHANGED << current_state, previous_state, disk_vars, iteration >>
       \/ /\ point = "half"
          /\ pc = "detected"
          /\ IF detected_state # NoState
             THEN StateChanged /\ UNCHANGED << unmatched_count, disk_vars >>
             ELSE /\ current_state # NoState
                  /\ \E logOk \in BOOLEAN :
                        LET s == save_unknown_state(screenshot_path, logOk) IN
                        /\ unmatched_count' = s.count
                        /\ archive' = s.archive
                        /\ log_lines' = s.log
                        /\ stamp_used' = s.stamp
          /\ previous_state' = current_state
          /\ UNCHANGED << current_state, iteration >>
    /\ out' = <<"State machine error">>
    /\ UNCHANGED is_running
    /\ pc' = "idle"
    /\ UNCHANGED << registry_vars, matcher_vars, poll_interval, util_vars, max_iterations,
                    state_hold_frames, screenshot_path, detected_state,
                    action_idx, executed, ghost_vars >>

\* KeyboardInterrupt inside the try block of run(): no handler of a matcher,
\* an action or the archive catches it (they catch Exception), the handler of
\* run() prints the message, the finally clause clears is_running and run()
\* returns.
Interrupt(point) ==
    /\ pc # "idle"
    /\ \/ /\ point = "between"
          /\ UNCHANGED << engine_vars, disk_vars, iteration >>
       \/ /\ point = "counting"
          /\ pc = "top" /\ is_running /\ ~BudgetReached
          /\ iteration' = iteration + 1
          /\ UNCHANGED << engine_vars, disk_vars >>
       \/ /\ point = "counted"
          /\ pc = "detected" /\ detected_state = NoState
          /\ unmatched_count' = unmatched_count + 1
          /\ UNCHANGED << current_state, previous_state, disk_vars, iteration >>
       \/ /\ point = "half"
          /\ pc = "detected"
          /\ IF detected_state # NoState
             THEN StateChanged /\ UNCHANGED << unmatched_count, disk_vars >>
             ELSE /\ current_state # NoState
                  /\ \E logOk \in BOOLEAN :
                        LET s == save_unknown_state(screenshot_path, logOk) IN
                        /\ unmatched_count' = s.count
                        /\ archive' = s.archive
                        /\ log_lines' = s.log
                        /\ stamp_used' = s.stamp
          /\ previous_state' = current_state
          /\ UNCHANGED << current_state, iteration >>
    /\ out' = <<"State machine stopped by user">>
    /\ is_running' = FALSE
    /\ pc' = "idle"
    /\ UNCHANGED << registry_vars, matcher_vars, poll_interval, util_vars, max_iterations,
                    state_hold_frames, screenshot_path, detected_state,
                    action_idx, executed, ghost_vars >>

\* run(budget) interrupted after `self.is_running = True` and before the try
\* block is entered, while the two lines of the banner are printed: the
\* checks have passed and the folder is swept, no handler and no finally
\* clause is in force yet, and the KeyboardInterrupt reaches the caller of
\* run() with is_running still set.
RunInterrupted(budget) ==
    /\ pc = "idle"
    /\ RunChecksPass
    /\ archive' = 0
    /\ log_lines' = 0
    /\ stamp_used' = FALSE
    /\ is_running' = TRUE
    /\ max_iterations' = budget
    /\ iteration' = 0
    /\ state_hold_frames' = 0
    /\ pc' = "idle"
    /\ out' = <<"Starting state machine loop">>
    /\ executed' = <<>>
    /\ captures' = 0
    /\ prev_detected' = NoState
    /\ start_state' = current_state
    /\ UNCHANGED << registry_vars, matcher_vars, poll_interval, util_vars, engine_vars,
                    screenshot_path, detected_state, action_idx, total_captures >>

\* ------------------------------------------------------ specifications
\* The engine as bot_main drives it: matchers bound, the registry list
\* loaded, run() called, stop() at any time.
Next ==
    \/ SetTemplateMatcher
    \/ SetTextExtractor
    \/ LoadRegisteredStates
    \/ \E b \in Budgets : Run(b)
    \/ Capture
    \/ DetectStep
    \/ Transition
    \/ ExecAction
    \/ Sleep
    \/ LoopExit
    \/ Stop

Spec == Init /\ [][Next]_vars

\* The engine's registration interface called directly, in any order, and
\* run() followed up to the detection of its first frame.
InitApi ==
    REGISTERED_STATES = <<>> /\ InitEngine /\ probe = NoProbe /\ poll_interval = 1 /\ archive = 0

NextApi ==
    \/ SetTemplateMatcher
    \/ SetTextExtractor
    \/ \E s \in States, c \in CriterionChoices :
          TotalLen(state_criteria, 1) < MaxCriteria /\ RegisterState(s, c[1], c[2], c[3])
    \/ TotalLen(state_actions, 1) < MaxActions /\ RegisterAction("launcher", "wait")
    \/ Run(NoBudget)
    \/ Capture
    \/ DetectStep
    \/ DetectAgain

SpecApi == InitApi /\ [][NextApi]_vars

\* The registration interface alone, called in any order on a fresh engine,
\* up to MaxRegistrations criteria and MaxActions actions.
NextReg ==
    \/ \E s \in States, c \in CriterionChoices :
          TotalLen(state_criteria, 1) < MaxRegistrations
             /\ RegisterState(s, c[1], c[2], c[3])
    \/ \E a \in ActionNames :
          TotalLen(state_actions, 1) < MaxActions /\ RegisterAction("launcher", a)

SpecReg == InitApi /\ [][NextReg]_vars

\* The engine with the faults of its surroundings: besides the failures of
\* the copy and of the log write, which run() meets in Spec too, the sweep of
\* the archive folder can fail and the screenshot callback can raise.
InitFaults ==
    REGISTERED_STATES = RegLoading /\ InitEngine /\ probe = NoProbe /\ poll_interval = 1

FaultBudgets == {NoBudget, 2}

NextFaults ==
    \/ SetTemplateMatcher
    \/ SetTextExtractor
    \/ LoadRegisteredStates
    \/ \E b \in FaultBudgets : Run(b)
    \/ \E b \in FaultBudgets : RunClearFails(b)
    \/ Capture
    \/ CaptureRaises
    \/ DetectStep
    \/ Transition
    \/ ExecAction
    \/ Sleep
    \/ LoopExit
    \/ Stop

SpecFaults == InitFaults /\ [][NextFaults]_vars

\* The engine run from a terminal: the user may press Ctrl-C while the loop
\* is running.
NextInt ==
    \/ SetTemplateMatcher
    \/ SetTextExtractor
    \/ LoadRegisteredStates
    \/ \E b \in FaultBudgets : Run(b)
    \/ Capture
    \/ DetectStep
    \/ Transition
    \/ ExecAction
    \/ Sleep
    \/ LoopExit
    \/ Stop
    \/ \E point \in InterruptPoints : Interrupt(point)

SpecInt == InitFaults /\ [][NextInt]_vars

\* The engine run from a terminal, with Ctrl-C pressed at any time after run()
\* is called and a screenshot callback that may raise.
NextStartup ==
    \/ SetTemplateMatcher
    \/ SetTextExtractor
    \/ LoadRegisteredStates
    \/ \E b \in FaultBudgets : Run(b)
    \/ \E b \in FaultBudgets : RunInterrupted(b)
    \/ Capture
    \/ CaptureRaises
    \/ DetectStep
    \/ Transition
    \/ ExecAction
    \/ Sleep
    \/ LoopExit
    \/ Stop
    \/ \E point \in InterruptPoints : Interrupt(point)

SpecStartup == InitFaults /\ [][NextStartup]_vars

\* The engine run from a terminal over an archive folder whose sweep may
\* fail: Ctrl-C inside the loop, and files that cannot be removed.
NextArchive ==
    \/ SetTemplateMatcher
    \/ LoadRegisteredStates
    \/ Run(NoBudget)
    \/ RunClearFails(NoBudget)
    \/ Capture
    \/ DetectStep
    \/ Transition
    \/ ExecAction
    \/ Sleep
    \/ LoopExit
    \/ Stop
    \/ \E point \in InterruptPoints : Interrupt(point)

SpecArchive == InitFaults /\ [][NextArchive]_vars

\* The engine loaded from the registry once or several times before it runs.
LoadRegistries == {RegSplit, RegLate}

InitLoad ==
    /\ REGISTERED_STATES \in LoadRegistries
    /\ InitEngine
    /\ probe = NoProbe
    /\ poll_interval = 1

NextLoad ==
    \/ SetTemplateMatcher
    \/ LoadRegisteredStates
    \/ LoadRegisteredStatesAgain
    \/ Run(2)
    \/ Capture
    \/ DetectStep
    \/ Transition
    \/ ExecAction
    \/ Sleep
    \/ LoopExit
    \/ Stop

SpecLoad == InitLoad /\ [][NextLoad]_vars

\* The engine set up from state modules that register themselves on import,
\* some of them without a pattern.
NextImports ==
    \/ \E call \in AutoRegisterCalls :
          Len(REGISTERED_STATES) < MaxDefinitions /\ AutoRegisterState(call)
    \/ SetTemplateMatcher
    \/ SetTextExtractor
    \/ LoadRegisteredStates
    \/ \E b \in FaultBudgets : Run(b)
    \/ Capture
    \/ DetectStep
    \/ Transition
    \/ ExecAction
    \/ Sleep
    \/ LoopExit
    \/ Stop

SpecImports == InitApi /\ [][NextImports]_vars

\* An engine whose states are recognised by text alone.
NextText ==
    \/ SetTemplateMatcher
    \/ SetTextExtractor
    \/ \E s \in States, c \in TextChoices :
          TotalLen(state_criteria, 1) < MaxCriteria /\ RegisterState(s, c[1], c[2], c[3])
    \/ Run(NoBudget)
    \/ Capture
    \/ DetectStep

SpecText == InitApi /\ [][NextText]_vars

\* The functions of utils.py called on their own, on every frame, template,
\* colour name and setting of the sets above.
InitUtils ==
    /\ REGISTERED_STATES = <<>>
    /\ InitEngine
    /\ probe \in TemplateProbes \cup ColourProbes
    /\ poll_interval = 1
    /\ archive = 0

NextUtils ==
    \/ CallTemplatePresent
    \/ CallGetTemplateCenter
    \/ CallIsSolidColor

SpecUtils == InitUtils /\ [][NextUtils]_vars

\* The engine with its loop scheduled: run() is sequential code, so as long as
\* every call it makes returns, the step it stands at is taken. A run with a
\* budget is started only where the screenshots bounded by MaxCaptures
\* suffice for it; stop() comes when the caller likes, or never.
InitLive ==
    REGISTERED_STATES = RegLoading /\ InitEngine /\ probe = NoProbe /\ poll_interval = 1 /\ archive = 0

LoopStep == Capture \/ DetectStep \/ Transition \/ ExecAction \/ Sleep \/ LoopExit

NextLive ==
    \/ SetTemplateMatcher
    \/ SetTextExtractor
    \/ LoadRegisteredStates
    \/ \E b \in Budgets :
          (Truthy(b) => b <= MaxCaptures - total_captures) /\ Run(b)
    \/ LoopStep
    \/ Stop

SpecLive == InitLive /\ [][NextLive]_vars /\ WF_vars(LoopStep)

\* ============================================================ claims
\* Positions of the registry: <<i, j>> is criterion j of the i-th state.
CriterionAt(i, j) == state_criteria[i].val[j]

\* The frame satisfies criterion j of the i-th state.
SatisfiedAt(frame, i, j) == EvalCriterion(frame, CriterionAt(i, j)).matched

\* The i-th state has a criterion the frame satisfies.
StateSatisfied(frame, i) ==
    \E j \in 1..Len(state_criteria[i].val) : SatisfiedAt(frame, i, j)

\* C1: first-match detection. Once _detect_state has returned, its result is
\* the identifier of the earliest-registered state with a satisfied criterion
\* (so of two states sharing a satisfiable pattern the first-registered one),
\* and it is none exactly when no registered state has a satisfied criterion.
C1_FirstMatch ==
    pc = "detected" =>
       /\ (detected_state = NoState) <=>
             (\A i \in 1..Len(state_criteria) : ~StateSatisfied(screenshot_path, i))
       /\ detected_state # NoState =>
             \E i \in 1..Len(state_criteria) :
                /\ state_criteria[i].key = detected_state
                /\ StateSatisfied(screenshot_path, i)
                /\ \A k \in 1..(i - 1) : ~StateSatisfied(screenshot_path, k)

\* C1 witness: two states share a pattern the frame satisfies, and the
\* first-registered one is returned.
C1_Witness ==
    /\ pc = "detected"
    /\ Len(state_criteria) = 2
    /\ StateSatisfied(screenshot_path, 1)
    /\ StateSatisfied(screenshot_path, 2)
    /\ CriterionAt(1, 1).pattern = CriterionAt(2, 1).pattern
    /\ detected_state = state_criteria[1].key

\* The actions registered for a state, in registration order.
ActionsOf(state) ==
    IF HasKey(state_actions, state) THEN Get(state_actions, state) ELSE <<>>

\* The names and the states of the action lines printed in this iteration.
ExecutedNames == [k \in 1..Len(executed) |-> executed[k].action]
ExecutedStates == {executed[k].state : k \in 1..Len(executed)}

\* This iteration has run every action of the detected state once, in order,
\* and no action of another state.
RanActionsOfDetected ==
    /\ ExecutedNames = ActionsOf(detected_state)
    /\ ExecutedStates \subseteq {detected_state}

\* C2 as stated: at the end of an iteration that detected a state, no action
\* has run if the previous iteration of the run detected the same state, and
\* otherwise (the first iteration of a block) the state's actions have run
\* exactly once.
C2_Original ==
    (pc = "sleep" /\ detected_state # NoState) =>
       IF prev_detected = detected_state
       THEN executed = <<>>
       ELSE RanActionsOfDetected

\* The state this run's first detection equals is the one an earlier run of
\* the same engine left current.
LeftCurrentByEarlierRun == iteration = 1 /\ start_state = detected_state

\* C2 as amended: edge-triggering. At the end of an iteration that detected a
\* state, no action has run if the previous iteration of the run detected the
\* same state, or if this is the first iteration of a run that found the state
\* already current; otherwise the state's actions have run exactly once.
C2_EdgeTrigger ==
    (pc = "sleep" /\ detected_state # NoState) =>
       IF prev_detected = detected_state \/ LeftCurrentByEarlierRun
       THEN executed = <<>>
       ELSE RanActionsOfDetected

\* C2 witness: the second of two consecutive detections of a state that has
\* actions, none of which has run in this iteration.
C2_Witness ==
    /\ pc = "sleep"
    /\ iteration = 2
    /\ detected_state # NoState
    /\ prev_detected = detected_state
    /\ Len(ActionsOf(detected_state)) = 2
    /\ executed = <<>>

\* The step of an iteration that follows a detection of a state other than
\* the current one / of no state.
ChangeStep ==
    pc = "detected" /\ pc' # "detected" /\ detected_state # NoState
    /\ detected_state # current_state
UnknownStep == pc = "detected" /\ pc' # "detected" /\ detected_state = NoState

\* A step in which an action line is printed, and that line.
ActionStep == executed' # executed /\ executed' # <<>>
LastLine == executed'[Len(executed')]

\* C3: transition step. On a detection of a state other than the current one
\* the loop sets previous_state to the old current_state, current_state to the
\* detected state and the hold counter to 1 before any action runs; then it
\* runs the actions of the detected state, each once, in registration order,
\* and nothing else before the sleep.
C3_TransitionStep ==
    [][ /\ ChangeStep =>
             /\ previous_state' = current_state
             /\ current_state' = detected_state
             /\ state_hold_frames' = 1
             /\ executed = <<>> /\ executed' = <<>>
             /\ pc' = IF ActionsOf(detected_state) # <<>> THEN "actions" ELSE "sleep"
        /\ ActionStep =>
             /\ pc = "actions"
             /\ current_state = detected_state /\ state_hold_frames = 1
             /\ UNCHANGED << current_state, previous_state, state_hold_frames >>
             /\ executed' = Append(executed, LastLine)
             /\ LastLine.state = detected_state
             /\ LastLine.action = ActionsOf(detected_state)[Len(executed) + 1]
        /\ (pc = "actions" /\ pc' = "sleep") =>
             Len(executed') = Len(ActionsOf(detected_state))
      ]_vars

\* C3 witness: the loop has moved from game_loading to launcher and run the
\* two launcher actions in order.
C3_Witness ==
    /\ pc = "sleep"
    /\ previous_state = "game_loading"
    /\ current_state = "launcher"
    /\ state_hold_frames = 1
    /\ ExecutedNames = <<"tap_game_icon", "wait">>

\* What both readings of C4 say of the state identifiers, the counter and
\* the actions in an iteration that detects no state.
LossStep ==
    /\ IF current_state # NoState
       THEN previous_state' = current_state /\ current_state' = NoState
       ELSE UNCHANGED << current_state, previous_state >>
    /\ unmatched_count' = unmatched_count + 1
    /\ executed = <<>> /\ executed' = <<>>
    /\ pc' = "sleep"

\* C4 as stated: an iteration that detects no state moves a non-empty
\* current_state to previous_state and empties it, increments the unmatched
\* counter by one, runs no action, and leaves the frame in the archive.
C4_Original == [][UnknownStep => (LossStep /\ stamp_used')]_vars

\* C4 as amended: classification loss. As stated, except that the frame is in
\* the archive afterwards only if it could be copied; a frame whose copy
\* fails is counted and reported, and the archive is left as it was.
C4_ClassificationLoss ==
    [][UnknownStep =>
          /\ LossStep
          /\ IF screenshot_path.readable
             THEN stamp_used'
             ELSE /\ UNCHANGED << archive, log_lines, stamp_used >>
                  /\ out' = <<"ERROR: Failed to save unknown state screenshot">>
      ]_vars

\* C4 witness: classification has been lost from launcher and the frame of
\* that iteration could not be archived.
C4_Witness ==
    /\ pc = "sleep"
    /\ detected_state = NoState
    /\ previous_state = "launcher"
    /\ current_state = NoState
    /\ prev_detected = "launcher"
    /\ ~screenshot_path.readable
    /\ unmatched_count = 1
    /\ archive = 0

\* C5 as stated: every iteration whose frame satisfies no criterion adds one
\* file to the archive folder and one line to the log.
C5_Original ==
    [][UnknownStep =>
          (archive' = archive + 1 /\ log_lines' = log_lines + 1)]_vars

\* C5 as amended: unknown-frame archiving. An iteration whose frame satisfies
\* no criterion, whether or not a state was current, and whose frame can be
\* copied leaves that frame in the archive under the name of the present
\* millisecond: one more file, unless the file of a frame archived in the same
\* millisecond is overwritten, which needs a poll interval below one
\* millisecond; and it adds one log line, or none with a reported write
\* failure. If the copy fails, no file and no line is added.
C5_UnknownArchived ==
    [][ /\ UnknownStep =>
             IF screenshot_path.readable
             THEN /\ stamp_used'
                  /\ archive' = archive + (IF stamp_used THEN 0 ELSE 1)
                  /\ \/ log_lines' = log_lines + 1 /\ out' = <<>>
                     \/ /\ log_lines' = log_lines
                        /\ out' = <<"ERROR: Failed to write to log">>
             ELSE /\ UNCHANGED << archive, log_lines >>
                  /\ out' = <<"ERROR: Failed to save unknown state screenshot">>
        /\ (poll_interval > 0 /\ pc' = "detected") => ~stamp_used'
      ]_vars

\* C5 witness: with no state current, a second unmatched frame in a row has
\* been archived and logged beside the first.
C5_Witness ==
    /\ pc = "sleep"
    /\ iteration = 2
    /\ detected_state = NoState
    /\ prev_detected = NoState
    /\ start_state = NoState
    /\ unmatched_count = 2
    /\ archive = 2
    /\ log_lines = 2

\* C6: action failure isolation. Whatever an action returns or raises, its
\* line is printed, with a warning or an error for False or an exception, and
\* the loop goes on to the next action registered for the state, or to the
\* sleep after the last one.
C6_FailureIsolation ==
    [][ActionStep =>
          /\ LastLine.action = ActionsOf(current_state)[Len(executed) + 1]
          /\ LastLine.result # "ok" => out' # <<>>
          /\ IF Len(executed') < Len(ActionsOf(current_state))
             THEN pc' = "actions" /\ action_idx' = Len(executed') + 1
             ELSE pc' = "sleep"
      ]_vars

\* C6 witness: the first action raised, the second returned False, and the
\* loop has reached the sleep.
C6_Witness ==
    /\ pc = "sleep"
    /\ Len(executed) = 2
    /\ executed[1].result = "error"
    /\ executed[2].result = "false"

\* C7: iteration budget. A run with a budget N >= 1 never takes more than N
\* screenshots, and when it leaves the loop with no stop request pending
\* (is_running still true at the loop head) it has taken exactly N and
\* current_state is the outcome of the last detection.
C7_IterationBudget ==
    [][ /\ (pc = "top" /\ pc' = "idle" /\ is_running) =>
             /\ max_iterations >= 1
             /\ captures = max_iterations
             /\ iteration = max_iterations
             /\ current_state' = detected_state
             /\ out' = <<"Reached max iterations">>
        /\ (pc' # "idle" /\ max_iterations' >= 1) => captures' <= max_iterations'
      ]_vars

\* C7 witness: run(2) has returned after two cycles, the second of which
\* detected a state.
C7_Witness ==
    /\ pc = "idle"
    /\ out = <<"Reached max iterations">>
    /\ max_iterations = 2
    /\ captures = 2
    /\ current_state = detected_state
    /\ current_state # NoState

\* No template matcher is bound or no state is registered.
Misconfigured == ~template_matcher \/ Len(state_criteria) = 0

\* What a refused run() leaves alone.
NothingStarted ==
    /\ pc' = "idle"
    /\ ~is_running'
    /\ UNCHANGED << archive, log_lines, stamp_used, current_state, previous_state,
                    unmatched_count, captures, total_captures, screenshot_path,
                    detected_state, executed >>

\* C8: pre-loop configuration check. While no template matcher is bound or no
\* state is registered, no step enters the loop, takes a screenshot, detects,
\* runs an action, clears the archive folder or changes current_state,
\* previous_state or the unmatched counter; and a run() call prints the error.
C8_PreLoopCheck ==
    [][(pc = "idle" /\ Misconfigured) =>
          /\ NothingStarted
          /\ (\E b \in Budgets : Run(b)) =>
                out' \in { <<"ERROR: Template matcher not set">>,
                           <<"ERROR: No states registered">> }
      ]_vars

\* C8 witness: run() has been refused for want of states, and the file an
\* earlier process left in the archive folder is still there.
C8_Witness ==
    /\ pc = "idle"
    /\ out = <<"ERROR: No states registered">>
    /\ template_matcher
    /\ ~is_running
    /\ archive = 1

\* Detection evaluates criterion j of the i-th state for the frame: no earlier
\* state matched and no earlier criterion of this state was satisfied.
Reached(frame, i, j) ==
    /\ \A k \in 1..(i - 1) : ~StateSatisfied(frame, k)
    /\ \A l \in 1..(j - 1) : ~SatisfiedAt(frame, i, l)

\* The positions of the registry whose criterion detection has evaluated and
\* whose matcher kind is in kinds.
ReachedOfKind(kinds) ==
    { p \in (1..Len(state_criteria)) \X (1..MaxCriteria + 1) :
         /\ p[2] <= Len(state_criteria[p[1]].val)
         /\ Reached(screenshot_path, p[1], p[2])
         /\ CriterionAt(p[1], p[2]).matcher_type \in kinds }

\* The matcher kinds the specification knows.
KnownKinds == {"template", "text", "solid_color"}
AllKinds == {c[3] : c \in CriterionChoices}

\* C9 as stated: a criterion of a kind other than template, text and
\* solid-colour is reported; detection never passes over it without a word.
C9_UnknownKindReported ==
    (pc = "detected" /\ ReachedOfKind(AllKinds \ KnownKinds) # {}) => out # <<>>

\* How often a message stands in the diagnostics of the last step.
Count(msg) == Cardinality({k \in 1..Len(out) : out[k] = msg})

StopPending == pc # "idle" /\ ~is_running

\* The places of an iteration after its screenshot.
InIteration == pc \in {"captured", "detected", "actions", "sleep"}

\* The order in which an iteration passes through its places.
IterationOrder ==
    \/ pc' = pc
    \/ pc = "captured" /\ pc' = "detected"
    \/ pc = "detected" /\ pc' \in {"actions", "sleep"}
    \/ pc = "actions" /\ pc' \in {"actions", "sleep"}
    \/ pc = "sleep" /\ pc' = "top"

\* C11: cooperative stop. A stop() request only clears is_running; an
\* iteration in progress goes on through detection, its remaining actions and
\* its sleep as it would without the request; at the top of the loop a pending
\* request lets no screenshot, detection, action or archive write happen, and
\* run() returns.
C11_CooperativeStop ==
    [][ /\ (is_running /\ ~is_running' /\ InIteration) =>
             UNCHANGED << pc, engine_vars, disk_vars, local_vars, action_idx,
                          executed, screenshot_path, detected_state >>
        /\ (StopPending /\ InIteration) =>
             /\ IterationOrder
             /\ (pc = "actions" /\ (pc' # pc \/ action_idx' # action_idx)) =>
                   Len(executed') = Len(executed) + 1
             /\ (pc' = "sleep" /\ pc = "actions") =>
                   Len(executed') = Len(ActionsOf(current_state))
             /\ ENABLED (DetectStep \/ Transition \/ ExecAction \/ Sleep)
        /\ (StopPending /\ pc = "top") =>
             /\ pc' \in {"top", "idle"}
             /\ UNCHANGED << engine_vars, disk_vars, iteration, captures,
                             total_captures, executed, screenshot_path,
                             detected_state >>
             /\ ENABLED LoopExit
      ]_vars

\* C11 witness: stop() was requested during the first iteration of a run
\* without budget; both actions of launcher have run in that iteration, and
\* the loop has ended at the top of the next one without another screenshot.
C11_Witness ==
    /\ pc = "idle"
    /\ ~is_running
    /\ max_iterations = NoBudget
    /\ captures = 1
    /\ Len(executed) = 2
    /\ current_state = "launcher"
    /\ out = <<>>

\* run() has returned: control is with the caller and is_running is false.
Returned == pc = "idle" /\ ~is_running

RegisteredKeys == {state_criteria[i].key : i \in 1..Len(state_criteria)}

\* C13: explicit transitions. current_state is one registered identifier or
\* empty, and a step that changes it, to another state or to empty, is the
\* step of the loop that follows a detection and sets previous_state to the
\* value current_state had before.
C13_ExplicitTransitions ==
    [][ /\ current_state' \in RegisteredKeys' \cup {NoState}
        /\ current_state' # current_state =>
              /\ pc = "detected"
              /\ previous_state' = current_state
              /\ current_state' = detected_state
      ]_vars

\* C13 witness: the run went from launcher to game_loading and then lost
\* classification; previous_state holds game_loading.
C13_Witness ==
    /\ pc = "sleep"
    /\ iteration = 3
    /\ start_state = NoState
    /\ prev_detected = "game_loading"
    /\ detected_state = NoState
    /\ current_state = NoState
    /\ previous_state = "game_loading"

\* A step that is a call of _detect_state: the one of the loop, or a second
\* one on the same frame.
DetectCall == pc \in {"captured", "detected"} /\ pc' \in {"detected", "redetected"}
SecondDetectCall == pc = "detected" /\ pc' = "redetected"

AdapterBound(c) ==
    \/ c.matcher_type = "template" /\ template_matcher
    \/ c.matcher_type = "text" /\ text_extractor

\* Position p of the registry comes before position q in registration order.
Before(p, q) == p[1] < q[1] \/ (p[1] = q[1] /\ p[2] < q[2])

\* C15: OR with short-circuit. A state matches a frame exactly when one of
\* its criteria is satisfied; the matcher calls of a detection are made in
\* registration order, once each, for the criteria with a bound matcher up to
\* the first satisfied one, and for no criterion of that state or of a
\* later-registered state after it.
C15_ShortCircuit ==
    pc = "detected" =>
       LET calls == detect_state(screenshot_path).calls
           called == {calls[k] : k \in 1..Len(calls)} IN
       /\ \A i \in 1..Len(state_criteria) :
             match_state_criterion(screenshot_path, state_criteria[i].key).matched
                <=> StateSatisfied(screenshot_path, i)
       /\ \A k, l \in 1..Len(calls) : k < l => Before(calls[k], calls[l])
       /\ called = { p \in ReachedOfKind(AllKinds) : AdapterBound(CriterionAt(p[1], p[2])) }
       /\ \A p \in called :
             SatisfiedAt(screenshot_path, p[1], p[2]) =>
                /\ p = calls[Len(calls)]
                /\ detected_state = state_criteria[p[1]].key

\* C15 witness: the state has two criteria with bound matchers and the first
\* of them is satisfied; one matcher call was made, none for the second.
C15_Witness ==
    /\ pc = "detected"
    /\ Len(state_criteria[1].val) = 2
    /\ AdapterBound(CriterionAt(1, 1))
    /\ AdapterBound(CriterionAt(1, 2))
    /\ CriterionAt(1, 1) # CriterionAt(1, 2)
    /\ detect_state(screenshot_path).calls = << <<1, 1>> >>
    /\ detected_state = state_criteria[1].key

\* The criteria register_state can be called with, as it stores them.
CriterionRecords ==
    { [pattern |-> c[1], threshold |-> c[2], matcher_type |-> c[3]] :
         c \in CriterionChoices }

\* The step is register_state(state, criterion): a new entry with that one
\* criterion after all others when the state is new, and otherwise the
\* criterion added after the last one of the state's list, with every entry
\* where it was.
RegisteredBy(state, criterion) ==
    IF state \notin RegisteredKeys
    THEN state_criteria' =
            Append(state_criteria, [key |-> state, val |-> <<criterion>>])
    ELSE \E i \in 1..Len(state_criteria) :
            /\ state_criteria[i].key = state
            /\ state_criteria' =
                  [state_criteria EXCEPT ![i].val = Append(@, criterion)]

\* No identifier is the key of two entries.
KeysOnce(d) == \A i, j \in 1..Len(d) : d[i].key = d[j].key => i = j

\* C16: registration. Every register_state call creates the entry of a state
\* not yet registered, after all existing ones, or appends the criterion to
\* the end of the existing list of a state and leaves every state at its
\* position, whatever the matcher kinds; each state appears once.
C16_Registration ==
    [][ /\ state_criteria' # state_criteria =>
              \E s \in States, c \in CriterionRecords : RegisteredBy(s, c)
        /\ KeysOnce(state_criteria')
      ]_vars

\* C16 witness: the first-registered state holds a template criterion
\* followed by a text criterion, and a state registered after it holds one.
C16_Witness ==
    /\ Len(state_criteria) = 2
    /\ Len(state_criteria[1].val) = 2
    /\ CriterionAt(1, 1).matcher_type = "template"
    /\ CriterionAt(1, 2).matcher_type = "text"
    /\ Len(state_criteria[2].val) = 1

\* The matcher call for criterion c on the frame raises: cv2.matchTemplate on
\* an image smaller than the template, both files being readable.
MatcherRaises(frame, c) ==
    /\ c.matcher_type = "template" /\ template_matcher
    /\ frame.readable /\ c.pattern \in Assets /\ frame.tiny

\* The matcher call for criterion c cannot read the frame or the template
\* file, or raises.
MatcherFaults(frame, c) ==
    /\ AdapterBound(c)
    /\ \/ ~frame.readable
       \/ c.matcher_type = "template" /\ c.pattern \notin Assets
       \/ MatcherRaises(frame, c)

RunStarts == pc = "idle" /\ pc' = "top"

\* C18 as stated: every run that passes the pre-loop checks begins, before its
\* first screenshot, with an archive folder holding no file but the keep
\* marker, and files come into the folder only as frames of that run.
C18_Original ==
    [][ /\ RunStarts => (captures' = 0 /\ archive' = 0 /\ log_lines' = 0)
        /\ archive' > archive => (UnknownStep /\ archive' = archive + 1)
      ]_vars

\* C18 as amended: archive reset per run. As stated when the sweep succeeds;
\* when an unlink fails the error is printed, the files not yet removed stay,
\* none is added, and the run goes on with them in the folder.
C18_ArchiveReset ==
    [][ /\ RunStarts =>
              /\ captures' = 0
              /\ IF out' = <<>>
                 THEN archive' = 0 /\ log_lines' = 0 /\ ~stamp_used'
                 ELSE /\ out' = <<"ERROR: Failed to clear unknown_states folder">>
                      /\ archive' <= archive
                      /\ log_lines' \in {0, log_lines}
        /\ archive' > archive => (UnknownStep /\ archive' = archive + 1)
      ]_vars

\* C18 witness: a second run on an engine whose first run met an unmatched
\* frame has swept the folder and stands before its first screenshot.
C18_Witness ==
    /\ pc = "top"
    /\ iteration = 0
    /\ captures = 0
    /\ total_captures >= 1
    /\ unmatched_count >= 1
    /\ out = <<>>
    /\ archive = 0
    /\ log_lines = 0

\* The messages of the three archive failures.
CopyFailed == <<"ERROR: Failed to save unknown state screenshot">>
LogFailed == <<"ERROR: Failed to write to log">>
ClearFailed == <<"ERROR: Failed to clear unknown_states folder">>

\* C19: archive failures are non-fatal. A frame that cannot be copied, a log
\* line that cannot be written and a folder that cannot be swept are each
\* reported; the iteration that met the failure still moves a non-empty
\* current_state to previous_state and empties it, and goes to its sleep with
\* is_running untouched; the run whose sweep failed still enters the loop;
\* and the sleep and the next screenshot are there to be taken.
C19_ArchiveFailures ==
    [][ /\ UnknownStep =>
              /\ ~screenshot_path.readable => out' = CopyFailed
              /\ (screenshot_path.readable /\ log_lines' = log_lines) => out' = LogFailed
              /\ out' \in {<<>>, CopyFailed, LogFailed}
              /\ IF current_state # NoState
                 THEN previous_state' = current_state /\ current_state' = NoState
                 ELSE UNCHANGED << current_state, previous_state >>
              /\ pc' = "sleep"
              /\ UNCHANGED is_running
        /\ RunStarts =>
              /\ (archive' # 0 \/ log_lines' # 0) => out' = ClearFailed
              /\ out' \in {<<>>, ClearFailed}
              /\ is_running'
        /\ pc = "sleep" => ENABLED Sleep
        /\ (pc = "top" /\ is_running /\ ~BudgetReached /\ total_captures < MaxCaptures)
              => ENABLED Capture
      ]_vars

\* C19 witness: in a run whose sweep of the folder failed, an iteration lost
\* the classification game_loading on a frame whose log line could not be
\* written; the transition is made and the file of the earlier run is still
\* in the folder beside the new one.
C19_Witness ==
    /\ pc = "sleep"
    /\ is_running
    /\ out = LogFailed
    /\ previous_state = "game_loading"
    /\ current_state = NoState
    /\ captures = 2
    /\ archive = 2
    /\ log_lines = 0

\* A step in which run() returns although no stop was requested.
ReturnsUnstopped == pc # "idle" /\ pc' = "idle" /\ is_running

\* C20 as stated: once the pre-loop checks have passed, no fault of a
\* collaborator ends the run: a run returns only when its budget is used up
\* or stop() was requested, and never to report an error.
C20_NoErrorEndsLoop ==
    [][ /\ ReturnsUnstopped => (BudgetReached /\ out' = <<"Reached max iterations">>)
        /\ pc # "idle" => out' # <<"State machine error">>
      ]_vars

\* The step is a KeyboardInterrupt taken by run().
Interrupted == \E point \in InterruptPoints : Interrupt(point)

\* C21: user interruption. Wherever the loop stands, a KeyboardInterrupt can
\* be taken; run() then returns with the message of a user stop and not with
\* an error raised to its caller, is_running is false, and current_state is
\* the value the loop had assigned last, a registered identifier or empty.
C21_UserInterruption ==
    [][ /\ Interrupted =>
              /\ pc' = "idle"
              /\ ~is_running'
              /\ out' = <<"State machine stopped by user">>
              /\ current_state' = current_state
              /\ current_state' \in RegisteredKeys \cup {NoState}
        /\ pc # "idle" => ENABLED Interrupt("between")
        /\ pc' = "idle" => (~is_running' /\ out' # <<"State machine error">>)
      ]_vars

\* C21 witness: the interrupt came while the second action of launcher was
\* executing; run() has returned and launcher is the current state.
C21_Witness ==
    /\ pc = "idle"
    /\ ~is_running
    /\ out = <<"State machine stopped by user">>
    /\ current_state = "launcher"
    /\ Len(ActionsOf("launcher")) = 2
    /\ Len(executed) = 1
    /\ action_idx = 2

\* ---------------------------------------------------------------- C22
\* The names on the module-level list none of whose definitions has a pattern.
DefinedNames == { REGISTERED_STATES[i].state : i \in 1..Len(REGISTERED_STATES) }
PatternsOf(s) ==
    { i \in 1..Len(REGISTERED_STATES) :
         REGISTERED_STATES[i].state = s /\ REGISTERED_STATES[i].patterns # <<>> }
Undetectable == { s \in DefinedNames : PatternsOf(s) = {} }
EmptyCall(call) == call.patterns = <<>> /\ call.pattern = <<>>
Loaded == state_criteria # <<>> \/ state_actions # <<>>
RunCalled == \E b \in FaultBudgets : Run(b)

\* C22: a state registered without a criterion draws a warning, is
\* on the registry, is never detected, and run() enters its loop (the matcher
\* being bound) also when no other state is registered.
C22_Original ==
    [][ /\ \A call \in AutoRegisterCalls :
              (EmptyCall(call) /\ AutoRegisterState(call)) =>
                 /\ out' = <<"WARNING: State registered with no patterns!">>
                 /\ call.state \in { REGISTERED_STATES'[i].state :
                                        i \in 1..Len(REGISTERED_STATES') }
        /\ detected_state' \notin Undetectable
        /\ (RunCalled /\ Loaded /\ template_matcher /\ Undetectable # {}) =>
              pc' = "top"
      ]_vars

\* What run() does where C22 expects the loop: the loop is entered when some
\* state with a criterion is loaded too; states without criteria being the
\* only ones, run() prints "ERROR: No states registered" and returns.
RunWithUndetectable ==
    [][ (RunCalled /\ Loaded /\ template_matcher /\ Undetectable # {}) =>
              IF DefinedNames \subseteq Undetectable
              THEN pc' = "idle" /\ ~is_running'
                   /\ out' = <<"ERROR: No states registered">>
              ELSE pc' = "top"
      ]_vars

\* ---------------------------------------------------------------- C23
\* C23: every action the loop executes is called with the shared context, and
\* the context's last captured frame is the frame of the iteration in which
\* the action runs.
C23_SharedContext ==
    \A i \in 1..Len(executed) :
       /\ Len(executed[i].args) = 1
       /\ executed[i].args[1].last_screenshot = screenshot_path

\* ---------------------------------------------------------------- C24
\* C24: iterations are sequential. Every iteration takes exactly one
\* screenshot; its detection, its archive write, all of its actions and then
\* its sleep happen, in this order, before the next screenshot is taken.
C24_SequentialIterations ==
    [][ /\ pc' # "idle" => captures' = iteration'
        /\ captures' # captures =>
              \/ RunStarts /\ captures' = 0
              \/ pc = "top" /\ pc' = "captured" /\ captures' = captures + 1
        /\ InIteration => IterationOrder
        /\ pc' = "top" => (pc \in {"top", "sleep"} \/ RunStarts)
        /\ detected_state' # detected_state => (pc = "captured" /\ pc' = "detected")
        /\ (archive' # archive \/ log_lines' # log_lines \/ current_state' # current_state) =>
              (pc = "detected" \/ RunStarts)
        /\ executed' # executed =>
              \/ pc = "actions" /\ Len(executed') = Len(executed) + 1
              \/ executed' = <<>>
        /\ (pc = "actions" /\ pc' = "sleep") =>
              Len(executed') = Len(ActionsOf(current_state))
      ]_vars

\* The second screenshot of a run has just been taken, after an iteration that
\* detected a state and ran its two actions.
C24_Witness ==
    /\ pc = "captured"
    /\ captures = 2
    /\ iteration = 2
    /\ current_state = "launcher"
    /\ Len(ActionsOf("launcher")) = 2
    /\ state_hold_frames = 1

\* ---------------------------------------------------------------- C25
\* The frame and the template of the call can both be read.
Usable == probe.frame.readable /\ probe.pattern \in Assets
BestScoreReaches == Usable /\ probe.frame.score >= probe.threshold

\* C25: template_present returns true exactly when the best score is at least
\* the threshold; get_template_center returns a point in exactly those cases,
\* the point (x + w div 2, y + h div 2) of the best match at (x, y) of a
\* template w wide and h high; both return the negative result when the frame
\* or the template is absent or unreadable. (Neither returns when the frame
\* is smaller than the template: cv2 raises.)
C25_TemplateAgreement ==
    probe.kind = "template" =>
       /\ ret.raised <=> (ret.fn # "none" /\ Usable /\ probe.frame.tiny)
       /\ (ret.fn = "template_present" /\ ~ret.raised) =>
             (ret.truth <=> BestScoreReaches)
       /\ (ret.fn = "get_template_center" /\ ~ret.raised) =>
             /\ ret.point # <<>> <=> BestScoreReaches
             /\ BestScoreReaches =>
                   ret.point = << probe.frame.loc[1] + (TemplateSize(probe.pattern)[1] \div 2),
                                  probe.frame.loc[2] + (TemplateSize(probe.pattern)[2] \div 2) >>
       /\ (ret.fn # "none" /\ ~Usable) => (~ret.truth /\ ret.point = <<>>)

\* The centre of a template 3 wide and 5 high found at (50, 7) with a score
\* equal to the threshold.
C25_Witness ==
    /\ ret.fn = "get_template_center"
    /\ probe.frame.score = probe.threshold
    /\ probe.frame.loc = <<50, 7>>
    /\ TemplateSize(probe.pattern) = <<3, 5>>
    /\ ret.point = <<51, 9>>

\* ---------------------------------------------------------------- C26
\* The colour name of the call, whatever its case.
NamesWhite == Lower(probe.pattern) = PatWhite
NamesBlack == Lower(probe.pattern) = PatBlack

\* C26: on a readable image with a whole-numbered mean grey level in 0..255,
\* is_solid_color returns true exactly when the standard deviation is at most
\* the uniformity bound and the mean is at least 255 - tolerance for white, at
\* most the tolerance for black; at tolerance 30 a uniform image of mean 255
\* is white and one of mean 128 is neither; any other colour name, and an
\* image that cannot be read, give false.
C26_SolidColor ==
    (probe.kind = "solid_color" /\ ret.fn = "is_solid_color") =>
       /\ ~ret.raised
       /\ probe.frame.readable =>
             (ret.truth <=>
                 /\ probe.frame.std <= probe.std_dev_threshold
                 /\ \/ NamesWhite /\ probe.frame.mean >= White - probe.tolerance
                    \/ NamesBlack /\ probe.frame.mean <= probe.tolerance)
       /\ ( /\ probe.frame.readable /\ probe.frame.std = 0
            /\ probe.tolerance = DefaultTolerance
            /\ probe.std_dev_threshold = DefaultDeviation ) =>
             /\ (probe.frame.mean = White /\ NamesWhite) => ret.truth
             /\ probe.frame.mean = 128 => ~ret.truth
       /\ (~NamesWhite /\ ~NamesBlack) => ~ret.truth
       /\ ~probe.frame.readable => ~ret.truth

\* A call that found white on the edge of both bounds: deviation equal to the
\* bound, mean equal to 255 - tolerance.
C26_Witness ==
    /\ ret.fn = "is_solid_color"
    /\ ret.truth
    /\ probe.pattern = PatWhite
    /\ probe.tolerance = DefaultTolerance
    /\ probe.frame.mean = White - DefaultTolerance
    /\ probe.frame.std = DefaultDeviation
    /\ probe.std_dev_threshold = DefaultDeviation

\* ---------------------------------------------------------------- C27
\* The pattern of a criterion, lower-cased, is part of the lower-cased text
\* read from the frame of this iteration.
TextHit(c) == Contains(Lower(c.pattern), Lower(extract_text(screenshot_path)))
TextState(i) ==
    \E j \in 1..Len(state_criteria[i].val) : TextHit(CriterionAt(i, j))

\* C27: with the text extractor bound, a text criterion is satisfied exactly
\* when its pattern, whatever the case of either, is a substring of the text
\* extracted from the frame, so detection over text criteria returns the
\* first state that has such a criterion; the threshold of the criterion has
\* no part in it.
C27_TextCriterion ==
    (pc = "detected" /\ text_extractor) =>
       /\ (detected_state = NoState) <=>
             (\A i \in 1..Len(state_criteria) : ~TextState(i))
       /\ detected_state # NoState =>
             \E i \in 1..Len(state_criteria) :
                /\ state_criteria[i].key = detected_state
                /\ TextState(i)
                /\ \A k \in 1..(i - 1) : ~TextState(k)

\* "Load" is found in "xlOAD" by a criterion whose threshold, 95, is above
\* the frame's score, after a criterion looking for "icon" failed.
C27_Witness ==
    /\ pc = "detected"
    /\ text_extractor
    /\ screenshot_path = FrameLoading
    /\ state_criteria = << [key |-> "launcher",
                            val |-> << [pattern |-> PatIcon, threshold |-> DefaultThreshold,
                                        matcher_type |-> "text"] >>],
                           [key |-> "game_loading",
                            val |-> << [pattern |-> PatLoading, threshold |-> 95,
                                        matcher_type |-> "text"] >>] >>
    /\ detected_state = "game_loading"

\* ---------------------------------------------------------------- C28
\* The iteration has chosen its branch and current_state names a state.
IterationEnds == pc \in {"actions", "sleep"} /\ current_state # NoState

\* C28: the hold counter. At the end of an iteration that leaves a state
\* current, state_hold_frames is the length of the streak of iterations of
\* this run that detected that state: 1 when the iteration before detected
\* something else or nothing, or when this is the first iteration of the run;
\* one more than at the end of the iteration before when that one detected
\* the same state. Between the ends of two iterations it does not change.
C28_HoldCounter ==
    [][ /\ IterationEnds' =>
              /\ current_state' = detected_state'
              /\ prev_detected' # detected_state' => state_hold_frames' = 1
              /\ prev_detected' = detected_state' =>
                    /\ state_hold_frames' >= 2
                    /\ state_hold_frames' <= iteration'
              /\ state_hold_frames' = iteration' =>
                    (iteration' = 1 \/ prev_detected' = detected_state')
        /\ (pc = "detected" /\ pc' # "detected" /\ detected_state # NoState
              /\ prev_detected = detected_state) =>
              state_hold_frames' = state_hold_frames + 1
        /\ state_hold_frames' # state_hold_frames =>
              \/ pc = "detected" /\ detected_state # NoState
              \/ RunStarts /\ state_hold_frames' = 0
      ]_vars

\* The third iteration of a run holds the state the second found.
C28_Witness ==
    /\ pc = "sleep"
    /\ iteration = 3
    /\ prev_detected = detected_state
    /\ current_state = "launcher"
    /\ state_hold_frames = 2

\* ---------------------------------------------------------------- C29
\* C29 as stated: in every reachable state previous_state differs from
\* current_state unless both are empty.
C29_Original == previous_state = current_state => current_state = NoState

\* C29, amended: previous_state differs from current_state unless both are
\* empty, or the user interrupted run() between the two assignments of a
\* transition or of a loss: the two then hold the same state until the next
\* transition or loss. No sequence of detections makes them equal.
C29_PreviousDiffers ==
    [][ (previous_state' = current_state' /\ current_state' # NoState) =>
           \/ Interrupt("half")
           \/ /\ previous_state = current_state
              /\ UNCHANGED << previous_state, current_state >>
      ]_vars

\* A run that went from one state to another stands with the two apart.
C29_Witness ==
    /\ previous_state = "launcher"
    /\ current_state = "game_loading"
    /\ pc = "sleep"
    /\ iteration = 2

\* ---------------------------------------------------------------- C30
\* The states that have a registered criterion, and those that have
\* registered actions and no criterion.
CriterionStates ==
    { k \in RegisteredKeys : Len(Get(state_criteria, k)) >= 1 }
ActionOnlyStates ==
    { state_actions[i].key : i \in 1..Len(state_actions) } \ CriterionStates

\* C30: current_state and previous_state are each empty or a state with at
\* least one registered criterion; a state with registered actions and no
\* criterion is never detected, never current, and none of its actions is
\* executed.
C30_CurrentHasCriterion ==
    /\ current_state \in CriterionStates \cup {NoState}
    /\ previous_state \in CriterionStates \cup {NoState}
    /\ detected_state \notin ActionOnlyStates
    /\ ExecutedStates \cap ActionOnlyStates = {}

\* The loop has lost a state that has a criterion and executed the actions of
\* no other, with the action of a state without criteria loaded.
C30_Witness ==
    /\ ActionOnlyStates = {"main_menu"}
    /\ Get(state_actions, "main_menu") = <<"branch_activity">>
    /\ previous_state = "launcher"
    /\ current_state = NoState
    /\ pc = "sleep"
    /\ iteration = 2

\* ---------------------------------------------------------------- C31
\* The step of an iteration that follows the detection of a state; the
\* detection opens a block when the iteration before, if any, detected
\* something else or nothing.
DetectedStep == pc = "detected" /\ pc' # "detected" /\ detected_state # NoState
OpensBlock == prev_detected # detected_state
FiresActions ==
    /\ current_state' = detected_state
    /\ state_hold_frames' = 1
    /\ pc' = IF ActionsOf(detected_state) # <<>> THEN "actions" ELSE "sleep"

\* C31 as stated: the actions of a state fire on the iteration that opens a
\* block of consecutive detections of it and on no other, so over a run they
\* fire once per block.
C31_Original ==
    [][ DetectedStep => (OpensBlock <=> FiresActions) ]_vars

\* C31, amended: a state detected again after iterations that detected another
\* state or none fires its actions again; over a run the actions of a state
\* fire once per block of consecutive detections of it, except for a block
\* that opens the run on the state an earlier run left current, which fires
\* nothing. Once fired, every action of the state runs before the sleep.
C31_ReentryFires ==
    [][ /\ DetectedStep =>
              /\ (OpensBlock /\ ~LeftCurrentByEarlierRun) <=> FiresActions
              /\ (OpensBlock /\ iteration > 1) => FiresActions
        /\ (pc = "actions" /\ pc' = "sleep") =>
              /\ ExecutedNames' = ActionsOf(detected_state)
              /\ ExecutedStates' = {detected_state}
      ]_vars

\* The launcher, the one state the registry lets a frame show, is back in the
\* third iteration after an iteration that detected nothing, and both of its
\* actions have run again.
C31_Witness ==
    /\ pc = "sleep"
    /\ Keys(state_criteria) = <<"launcher", "main_menu">>
    /\ iteration = 3
    /\ start_state = NoState
    /\ previous_state = NoState
    /\ prev_detected = NoState
    /\ detected_state = "launcher"
    /\ unmatched_count = 1
    /\ ExecutedNames = <<"tap_game_icon", "wait">>

\* ---------------------------------------------------------------- C32
\* C32: state persists across runs. A call of run() leaves current_state,
\* previous_state and the unmatched counter as they are and restarts the
\* iteration count and the hold counter at 0; when the first detection of the
\* run is the state the run before left current, the iteration is a hold:
\* nothing is executed and current_state and previous_state stay.
C32_StatePersists ==
    [][ /\ pc = "idle" => UNCHANGED engine_vars
        /\ RunStarts =>
              /\ iteration' = 0
              /\ state_hold_frames' = 0
              /\ start_state' = current_state
        /\ (DetectedStep /\ LeftCurrentByEarlierRun) =>
              /\ state_hold_frames' = 1
              /\ pc' = "sleep"
              /\ executed' = <<>>
              /\ UNCHANGED engine_vars
      ]_vars

\* The first iteration of a second run has held the launcher that the first
\* run left current, and none of its two actions has run.
C32_Witness ==
    /\ pc = "sleep"
    /\ total_captures = 2
    /\ captures = 1
    /\ start_state = "launcher"
    /\ detected_state = "launcher"
    /\ current_state = "launcher"
    /\ Len(ActionsOf("launcher")) = 2
    /\ executed = <<>>
    /\ state_hold_frames = 1

\* ---------------------------------------------------------------- C33
\* The run in progress was called with no budget or with a budget of zero.
Unbudgeted == pc # "idle" /\ max_iterations \in {NoBudget, 0}

StoppedBeforeRun == pc = "idle" /\ out = <<"Stopping state machine...">>

\* C34: a stop request made before run() is called is lost. stop() outside a
\* run changes nothing but its message; the run() that follows passes its
\* checks as ever, sets is_running and enters the loop, where the first
\* screenshot is taken as if stop() had not been called.
C34_StopBeforeRunLost ==
    [][ /\ (pc = "idle" /\ out' = <<"Stopping state machine...">>) =>
              (~is_running' /\ pc' = "idle"
               /\ UNCHANGED << engine_vars, disk_vars, local_vars, registry_vars >>)
        /\ (StoppedBeforeRun /\ RunChecksPass /\ pc' # "idle") =>
              /\ pc' = "top"
              /\ is_running'
              /\ iteration' = 0
        /\ (StoppedBeforeRun /\ RunChecksPass /\ total_captures < MaxCaptures) =>
              ENABLED (Run(NoBudget) /\ (ENABLED Capture)')
      ]_vars

\* stop() has been called on a configured engine that never ran, and the
\* run() that can follow enters the loop with is_running set.
C34_Witness ==
    /\ StoppedBeforeRun
    /\ total_captures = 0
    /\ ENABLED (Run(NoBudget) /\ is_running' /\ pc' = "top")

\* ---------------------------------------------------------------- C35
\* C35: is_running holds only while run() is under way: whenever run() has
\* returned or has let a fault through to its caller, by the budget, stop(),
\* an interrupt or a fault of the screenshot callback, is_running is false.
C35_RunningOnlyInRun == pc = "idle" => ~is_running

\* ---------------------------------------------------------------- C36
\* The step that ends the classification of a frame no criterion matched.
NoStateStep == pc = "detected" /\ pc' # "detected" /\ detected_state = NoState
Counted == unmatched_count' = unmatched_count + 1

\* C36 as stated: the unmatched counter never decreases and goes up by one in
\* exactly the iterations whose detection returned no state; a failed copy
\* writes no log line, and the log never holds more lines than the archive
\* folder holds files.
C36_Original ==
    [][ /\ unmatched_count' >= unmatched_count
        /\ NoStateStep <=> Counted
        /\ (NoStateStep /\ ~screenshot_path.readable) => log_lines' = log_lines
        /\ pc' # "idle" => log_lines' <= archive'
      ]_vars

\* C36, amended: the counter never decreases and goes up by one in exactly
\* the iterations whose detection returned no state, a failed copy included,
\* unless an interrupt ends the iteration between the detection and the count;
\* a failed copy writes no log line, and a log line is written only in an
\* iteration whose copy succeeded, so a run writes no more lines than it
\* copies frames. (The log can still hold more lines than the folder holds
\* files, when a failed sweep left the lines of the run before.)
C36_UnmatchedCounter ==
    [][ /\ unmatched_count' >= unmatched_count
        /\ (NoStateStep /\ ~Interrupt("between")) <=> Counted
        /\ (NoStateStep /\ ~screenshot_path.readable) =>
              (log_lines' = log_lines /\ archive' = archive)
        /\ log_lines' > log_lines =>
              /\ NoStateStep
              /\ screenshot_path.readable
              /\ log_lines' = log_lines + 1
              /\ archive' = archive + 1 \/ stamp_used
      ]_vars

\* Two frames in a row matched nothing; the copy of the second failed, so the
\* counter stands at 2 with one file and one line.
C36_Witness ==
    /\ pc = "sleep"
    /\ iteration = 2
    /\ ~screenshot_path.readable
    /\ detected_state = NoState
    /\ unmatched_count = 2
    /\ archive = 1
    /\ log_lines = 1

\* ---------------------------------------------------------------- C37
\* C37: an iteration that detects a state changes neither the archive folder
\* nor the unknown-states log nor the unmatched counter, in the step that
\* follows the detection and in the capture, detection, action and sleep
\* steps around it; when the detected state is the current one, current_state
\* and previous_state stay as well.
C37_DetectedFrame ==
    [][ /\ DetectedStep =>
              /\ UNCHANGED << archive, log_lines, unmatched_count >>
              /\ detected_state = current_state =>
                    UNCHANGED << current_state, previous_state >>
        /\ pc \in {"top", "captured", "actions", "sleep"} =>
              UNCHANGED << archive, log_lines, unmatched_count, current_state,
                           previous_state >>
      ]_vars

\* After a frame that matched nothing was archived, two iterations detected
\* the launcher; the folder, the log and the counter are as the first left
\* them.
C37_Witness ==
    /\ pc = "sleep"
    /\ iteration = 3
    /\ detected_state = "launcher"
    /\ prev_detected = "launcher"
    /\ current_state = "launcher"
    /\ previous_state = NoState
    /\ state_hold_frames = 2
    /\ unmatched_count = 1
    /\ archive = 1
    /\ log_lines = 1

\* Positions of the definitions in the registry, those with a pattern and
\* those with an action.
DefIdx == 1..Len(REGISTERED_STATES)
WithPatterns == {i \in DefIdx : REGISTERED_STATES[i].patterns # <<>>}
WithActions == {i \in DefIdx : REGISTERED_STATES[i].actions # <<>>}

\* The identifiers defined at the positions S, in order of first appearance.
FirstAt(name, S) ==
    CHOOSE i \in S :
       /\ REGISTERED_STATES[i].state = name
       /\ \A k \in S : REGISTERED_STATES[k].state = name => i <= k
AppearanceOrder(S) ==
    LET N == {REGISTERED_STATES[i].state : i \in S}
        Rank(n) == Cardinality({m \in N : FirstAt(m, S) < FirstAt(n, S)}) + 1
    IN  [r \in 1..Cardinality(N) |-> CHOOSE n \in N : Rank(n) = r]

\* The criteria and the actions of every definition of one identifier, in
\* registry order, each criterion with the threshold and kind of its definition.
RECURSIVE MergedCriteria(_, _)
MergedCriteria(name, i) ==
    IF i > Len(REGISTERED_STATES) THEN <<>>
    ELSE LET def == REGISTERED_STATES[i]
         IN  (IF def.state = name
              THEN [k \in 1..Len(def.patterns) |->
                      [pattern |-> def.patterns[k], threshold |-> def.threshold,
                       matcher_type |-> def.matcher_type]]
              ELSE <<>>) \o MergedCriteria(name, i + 1)
RECURSIVE MergedActions(_, _)
MergedActions(name, i) ==
    IF i > Len(REGISTERED_STATES) THEN <<>>
    ELSE (IF REGISTERED_STATES[i].state = name THEN REGISTERED_STATES[i].actions
          ELSE <<>>) \o MergedActions(name, i + 1)

\* What a dict of the engine held for a key before a step.
HeldFor(d, k) == IF HasKey(d, k) THEN Get(d, k) ELSE <<>>

\* A call of load_registered_states.
LoadStep ==
    pc = "idle" /\ (state_criteria' # state_criteria \/ state_actions' # state_actions)

\* Completed calls of load_registered_states.
LoadsDone == TotalLen(state_criteria, 1) \div PatternCount(1)

\* The first identifier of the sequence with a merged criterion the frame
\* satisfies, or none.
DetectedAlong(order) ==
    LET Hit(r) == \E k \in 1..Len(MergedCriteria(order[r], 1)) :
                      EvalCriterion(screenshot_path, MergedCriteria(order[r], 1)[k]).matched
    IN  IF \E r \in 1..Len(order) : Hit(r)
        THEN order[CHOOSE r \in 1..Len(order) : Hit(r) /\ \A q \in 1..(r - 1) : ~Hit(q)]
        ELSE NoState

\* C38 as stated: detection follows the order in which the identifiers first
\* appear in REGISTERED_STATES, whether or not the definition that names an
\* identifier first has a pattern.
C38_Original ==
    pc = "detected" => detected_state = DetectedAlong(AppearanceOrder(DefIdx))

\* C38: load_registered_states. Every call appends to the engine, for each
\* identifier, the criteria and the actions of all its definitions in registry
\* order, each criterion with the threshold and matcher kind of its own
\* definition; the states stand in the order in which the identifiers first
\* appear among the definitions that have a pattern, and detection follows that
\* order; a second call appends everything again, and a transition then runs
\* each action of the state as many times as the registry was loaded.
C38_LoadRegistry ==
    [][ /\ LoadStep =>
              /\ Keys(state_criteria') = AppearanceOrder(WithPatterns)
              /\ Keys(state_actions') = AppearanceOrder(WithActions)
              /\ \A i \in 1..Len(state_criteria') :
                    state_criteria'[i].val =
                       HeldFor(state_criteria, state_criteria'[i].key)
                          \o MergedCriteria(state_criteria'[i].key, 1)
              /\ \A i \in 1..Len(state_actions') :
                    state_actions'[i].val =
                       HeldFor(state_actions, state_actions'[i].key)
                          \o MergedActions(state_actions'[i].key, 1)
        /\ pc' = "detected" =>
              detected_state' = DetectedAlong(AppearanceOrder(WithPatterns))'
        /\ (pc = "actions" /\ pc' = "sleep") =>
              /\ ExecutedNames' = ActionsOf(current_state)
              /\ Len(executed') = LoadsDone * Len(MergedActions(current_state, 1))
      ]_vars

\* C38 witness: the registry with two launcher definitions was loaded twice;
\* the launcher holds four criteria, 95, 80, 95, 80, stands before
\* game_loading, and its transition has run tap_game_icon and wait twice each.
C38_Witness ==
    /\ REGISTERED_STATES = RegSplit
    /\ pc = "sleep" /\ iteration = 1
    /\ Keys(state_criteria) = <<"launcher", "game_loading">>
    /\ Len(Get(state_criteria, "launcher")) = 4
    /\ [k \in 1..4 |-> Get(state_criteria, "launcher")[k].threshold]
          = <<95, DefaultThreshold, 95, DefaultThreshold>>
    /\ current_state = "launcher"
    /\ ExecutedNames = <<"tap_game_icon", "wait", "tap_game_icon", "wait">>

\* Every registered criterion is of text kind, and there is one.
AllText ==
    /\ state_criteria # <<>>
    /\ \A i \in 1..Len(state_criteria) : \A j \in 1..Len(state_criteria[i].val) :
          CriterionAt(i, j).matcher_type = "text"

\* C39: the check before the loop looks at the template matcher alone. A run
\* called without a template matcher is refused with the template-matcher
\* message and starts nothing, even when every criterion is of text kind and a
\* text extractor is bound; a run called with a template matcher and at least
\* one state starts, bound text extractor or not; and without a text extractor
\* no text criterion is satisfied, so an engine of text criteria detects none.
C39_TemplateCheckOnly ==
    [][ /\ (Run(NoBudget) /\ ~template_matcher) =>
              /\ pc' = "idle" /\ ~is_running'
              /\ out' = <<"ERROR: Template matcher not set">>
        /\ (Run(NoBudget) /\ template_matcher /\ state_criteria # <<>>) =>
              pc' = "top" /\ is_running'
        /\ (pc' = "detected" /\ ~text_extractor /\ AllText) =>
              /\ detected_state' = NoState
              /\ \A i \in 1..Len(state_criteria) :
                    ~StateSatisfied(screenshot_path', i)
      ]_vars

\* C39 witness: the loop runs with a template matcher and no text extractor
\* over text criteria; the frame reads "Loading", the pattern "Load" is
\* registered, and nothing is detected.
C39_Witness ==
    /\ pc = "detected"
    /\ template_matcher /\ ~text_extractor
    /\ AllText
    /\ \E i \in 1..Len(state_criteria) : CriterionAt(i, 1).pattern = PatLoading
    /\ screenshot_path = FrameLoading
    /\ detected_state = NoState

====
